---- MODULE Spec2Model ----
(***************************************************************************)
(* Model of the tool registry (ClientsRegistry) and of the agent           *)
(* interaction loop (TinyAgent.run) of meta-tiny-agents.                    *)
(*                                                                         *)
(* The specifications share the variables:                                 *)
(*   SpecRegistry  the registry driven directly by an application:         *)
(*                 register / getTools / callTool, with providers whose    *)
(*                 catalog fetch may start and stop failing;               *)
(*   Spec          one run of the agent loop over a registry the           *)
(*                 application has already set up;                         *)
(*   SpecAll       either of the two;                                      *)
(*   SpecRetrieval a run of plannerAgent's TinyAgent with a retrieval      *)
(*                 query;                                                  *)
(*   SpecStream    a run of plannerAgent's TinyAgent with a stream         *)
(*                 callback;                                               *)
(*   SpecLive      a run over a registry whose providers change what       *)
(*                 they expose while the run is in progress;               *)
(*   SpecChunk     one call of RAG.chunkText.                              *)
(***************************************************************************)
EXTENDS Integers, Sequences, FiniteSets, Bags, TLC

VARIABLES
    clients,           \* ClientsRegistry.clients: <<[name, client]>> in Object.entries order
    procs,             \* provider processes spawned so far, indexed by connection id
    lastOp,            \* outcome of the last registry operation the application awaited
    variant,           \* which TinyAgent.run is running: "tinyAgents" or "plannerAgent"
    maxInteractions,   \* TinyAgent.maxInteractions
    hasInputCallback,  \* options.requestInputFromUser is a function
    baseMessages,      \* options.baseMessages
    pc,                \* position of run: "idle", "loop", "tools", "done", "failed";
                       \* "app" while the application drives the registry itself
    availableTools,    \* run's availableTools (tool declarations sent to the model)
    conversation,      \* run's conversation array
    llmCalls,          \* run's llmCalls array
    toolCalls,         \* run's toolCalls array
    interactionCount,  \* run's interactionCount
    taskCompleteAck,   \* run's taskCompleteAck
    toolIdx,           \* index of the next tool call of the current turn (for .. of)
    runError,          \* the error run rejected with
    dispatched,        \* registry.callTool invocations made by the run: <<[id, name, forwardedTo]>>
    ragQuery,          \* options.ragQuery ("" when absent)
    retrieval,         \* what RAG.query does when the run calls it
    onStreamAnswer,    \* options.onStreamAnswer is supplied
    requests,          \* chat.completions.create calls of the current iteration
    streamed,          \* fragments passed to options.onStreamAnswer in the current iteration
    arrived,           \* text fragments of the stream requested in the current iteration
    asked,             \* the questions options.requestInputFromUser was called with
    chunkCall,         \* the last call of RAG.chunkText: its arguments and what it returned
    disk,              \* the indexed file of the workspace directory: [exists, mtime, text]
    store,             \* the tables of the vector store: files, memory, memory_chunks
    syncs,             \* RAG.syncFile invocations on the file: those in flight and their count
    memoryCall         \* the last call of RAG.createMemory or RAG.updateMemory and how far it got

registryVars == <<clients, procs, lastOp>>
runVars == <<variant, maxInteractions, hasInputCallback, baseMessages, pc,
             availableTools, conversation, llmCalls, toolCalls, interactionCount,
             taskCompleteAck, toolIdx, runError, dispatched, ragQuery, retrieval,
             onStreamAnswer, requests, streamed, arrived, asked>>
vars == <<clients, procs, lastOp, variant, maxInteractions, hasInputCallback,
          baseMessages, pc, availableTools, conversation, llmCalls, toolCalls,
          interactionCount, taskCompleteAck, toolIdx, runError, dispatched,
          ragQuery, retrieval, onStreamAnswer, requests, streamed, arrived,
          asked, chunkCall, disk, store, syncs, memoryCall>>
indexVars == <<disk, store, syncs, memoryCall>>
chunkVars == <<chunkCall, disk, store, syncs, memoryCall>>

(***************************************************************************)
(* Bounds of the model.                                                    *)
(***************************************************************************)
\* provider processes an application spawns in one exploration of the registry
MaxProcs == 2
\* tool calls a model requests over a whole run
MaxToolCalls == 3
\* tool calls a model requests in one turn
MaxCallsPerTurn == 2
\* memories created in one exploration of the RAG facade
MaxMemories == 2
\* syncFile invocations started on the file
MaxSyncs == 2
\* times the file is written
MaxVersions == 2
\* longest text given to chunkText
MaxTextLen == 5
\* largest chunk size given to chunkText
MaxSize == 3
\* largest overlap given to chunkText
MaxOverlap == 1
\* chunks of one stream
MaxDeltas == 2

(***************************************************************************)
(* Values.                                                                 *)
(***************************************************************************)
INTERACTION_SERVER == "interaction-server"

NoError == [kind |-> "none", detail |-> ""]
Err(kind, detail) == [kind |-> kind, detail |-> detail]

\* toolCall.function.arguments: absent, blank, or a JSON text
ArgsUndefined == "<undefined>"
ArgsEmptyObject == "{}"
ArgsAlice == "{\"name\":\"Alice\"}"
ArgsFoo == "{\"foo\":\"bar\"}"
ArgsQuestion == "{\"questions\":\"which?\"}"

\* JSON.parse: the texts that parse, and the object each one denotes
\* (an object is the sequence of its <<key, value>> entries)
JSONParses(text) == text \in {ArgsEmptyObject, ArgsAlice, ArgsFoo, ArgsQuestion}

JSONParse(text) ==
    CASE text = ArgsAlice -> << <<"name", "Alice">> >>
      [] text = ArgsFoo -> << <<"foo", "bar">> >>
      [] text = ArgsQuestion -> << <<"questions", "which?">> >>
      [] OTHER -> << >>

\* obj[key], "" standing for undefined
Prop(obj, key) ==
    IF \E i \in 1..Len(obj) : obj[i][1] = key
    THEN obj[CHOOSE i \in 1..Len(obj) : obj[i][1] = key][2]
    ELSE ""

\* JSON.stringify of a string result
JSONStringify(result) == "\"" \o result \o "\""

(***************************************************************************)
(* Providers: the processes register spawns.                               *)
(***************************************************************************)
Transports == {"stdio", "invalid-transport"}
ClientNames == {"hello-world-client", "7"}
\* "hello" is test/fixtures/helloWorldServer.js; "shadow" is a provider that
\* exposes a tool named like the built-in and a second hello-world;
\* "broken" is a command that does not start.
Commands == {"hello", "shadow", "broken"}

CatalogOf(command) ==
    CASE command = "hello" -> <<"hello-world">>
      [] command = "shadow" -> <<"task_complete", "hello-world">>
      [] OTHER -> << >>

\* the hello-world tool handler
HelloWorldHandler(args) ==
    IF Prop(args, "name") # ""
    THEN "Hello World " \o Prop(args, "name") \o "!"
    ELSE "Hello World!"

\* what a provider process running `command` answers to callTool({name, arguments});
\* a result {content: [{type: "text", text}]} is represented by its text
ProviderCallTool(command, name, args) ==
    IF command = "shadow"
    THEN "shadow:" \o name
    ELSE HelloWorldHandler(args)

(***************************************************************************)
(* ClientsRegistry.                                                        *)
(***************************************************************************)
defaultTools == << [clientName |-> INTERACTION_SERVER, name |-> "task_complete"] >>

\* an integer-like property name: JavaScript lists these first, in ascending order
IsIndexKey(name) == name \in {"7"}

\* mutant: the provider map is a list every register appends to
ObjectSetAppend(obj, name, client) == Append(obj, [name |-> name, client |-> client])

\* mutant: a name already in the provider map keeps its client
ObjectSetKeepsFirst(obj, name, client) ==
    IF \E i \in 1..Len(obj) : obj[i].name = name
    THEN obj
    ELSE Append(obj, [name |-> name, client |-> client])

\* this.clients[name] = client, keeping JavaScript's property order
ObjectSet(obj, name, client) ==
    IF \E i \in 1..Len(obj) : obj[i].name = name
    THEN [i \in 1..Len(obj) |->
            IF obj[i].name = name THEN [name |-> name, client |-> client] ELSE obj[i]]
    ELSE IF IsIndexKey(name)
         THEN << [name |-> name, client |-> client] >> \o obj
         ELSE Append(obj, [name |-> name, client |-> client])

\* this.clients[name], 0 standing for undefined
ObjectGet(obj, name) ==
    IF \E i \in 1..Len(obj) : obj[i].name = name
    THEN obj[CHOOSE i \in 1..Len(obj) : obj[i].name = name].client
    ELSE 0

RECURSIVE FlatMapToolsAtSpawn(_, _)
\* mutant: each client's tools are those its provider exposed when it was spawned
FlatMapToolsAtSpawn(obj, ps) ==
    IF obj = << >> THEN << >>
    ELSE LET cat == CatalogOf(ps[Head(obj).client].command)
         IN [k \in 1..Len(cat) |-> [clientName |-> Head(obj).name, name |-> cat[k]]]
            \o FlatMapToolsAtSpawn(Tail(obj), ps)

RECURSIVE FlatMapTools(_, _)
\* toolsByClient.flatMap(...): each client's tools, as its listTools() answered
\* them, tagged with the client's name
FlatMapTools(obj, ps) ==
    IF obj = << >> THEN << >>
    ELSE LET cat == ps[Head(obj).client].catalog
         IN [k \in 1..Len(cat) |-> [clientName |-> Head(obj).name, name |-> cat[k]]]
            \o FlatMapTools(Tail(obj), ps)

\* the clients whose listTools() rejects
FailingClients(obj, ps) == {i \in 1..Len(obj) : ps[obj[i].client].listFails}

\* the provider processes getTools sends listTools() to
Queried(obj) == {obj[i].client : i \in 1..Len(obj)}

\* mutant: the providers' tools are listed before the built-ins
GetToolsValueProvidersFirst(obj, ps) == FlatMapTools(obj, ps) \o defaultTools

\* the value getTools resolves with when no listTools() rejects
GetToolsValue(obj, ps) == defaultTools \o FlatMapTools(obj, ps)

\* mutant: a name that is not found resolves to the first tool of the catalog
FindToolDefaultsToFirst(allTools, functionName) ==
    IF \E i \in 1..Len(allTools) : allTools[i].name = functionName
    THEN CHOOSE i \in 1..Len(allTools) :
            /\ allTools[i].name = functionName
            /\ \A j \in 1..(i - 1) : allTools[j].name # functionName
    ELSE 1

\* allTools.find((t) => t.function.name === functionName): its index, 0 if none
FindTool(allTools, functionName) ==
    IF \E i \in 1..Len(allTools) : allTools[i].name = functionName
    THEN CHOOSE i \in 1..Len(allTools) :
            /\ allTools[i].name = functionName
            /\ \A j \in 1..(i - 1) : allTools[j].name # functionName
    ELSE 0

\* toolCall.function.arguments ?? "{}"
NullishDefault(arguments) == IF arguments = ArgsUndefined THEN ArgsEmptyObject ELSE arguments

\* toolCall.function.arguments || "{}"
FalsyDefault(arguments) ==
    IF arguments \in {ArgsUndefined, ""} THEN ArgsEmptyObject ELSE arguments

\* mutant: only the provider that owns the tool is asked for its catalog, so
\* the call fails on a rejected listTools() only when it is the owner's
CallToolOutcomeOwnerOnly(obj, ps, toolCall, failing) ==
    LET text == NullishDefault(toolCall.arguments)
        allTools == GetToolsValue(obj, ps)
        idx == FindTool(allTools, toolCall.name)
        none == [error |-> NoError, result |-> "", queried |-> {}, forwardedTo |-> 0]
    IN IF ~JSONParses(text)
       THEN [none EXCEPT !.error = Err("SyntaxError", text)]
       ELSE IF idx = 0
       THEN [none EXCEPT !.error = Err("ToolNotFound", toolCall.name)]
       ELSE IF allTools[idx].clientName = INTERACTION_SERVER
       THEN none
       ELSE LET p == ObjectGet(obj, allTools[idx].clientName)
            IN IF ps[p].listFails
               THEN [none EXCEPT !.error = Err("ListToolsFailed", allTools[idx].clientName),
                                 !.queried = {p}]
               ELSE [error |-> NoError,
                     result |-> ProviderCallTool(ps[p].command, toolCall.name,
                                                 JSONParse(text)),
                     queried |-> {p},
                     forwardedTo |-> p]

\* The outcome of ClientsRegistry.callTool(toolCall) in the registry state
\* (obj, ps), when the listTools() of failing client `failing` (0: none fails) is
\* the one that rejects first.
CallToolOutcome(obj, ps, toolCall, failing) ==
    LET text == NullishDefault(toolCall.arguments)
        allTools == GetToolsValue(obj, ps)
        idx == FindTool(allTools, toolCall.name)
        none == [error |-> NoError, result |-> "", queried |-> {}, forwardedTo |-> 0]
    IN IF ~JSONParses(text)
       THEN [none EXCEPT !.error = Err("SyntaxError", text)]
       ELSE IF failing # 0
       THEN [none EXCEPT !.error = Err("ListToolsFailed", obj[failing].name),
                         !.queried = Queried(obj)]
       ELSE IF idx = 0
       THEN [none EXCEPT !.error = Err("ToolNotFound", toolCall.name),
                         !.queried = Queried(obj)]
       ELSE IF allTools[idx].clientName = INTERACTION_SERVER
       THEN [none EXCEPT !.queried = Queried(obj)]
       ELSE IF ObjectGet(obj, allTools[idx].clientName) = 0
       THEN [none EXCEPT !.error = Err("ClientNotRegistered", allTools[idx].clientName),
                         !.queried = Queried(obj)]
       ELSE LET p == ObjectGet(obj, allTools[idx].clientName)
            IN [error |-> NoError,
                result |-> ProviderCallTool(ps[p].command, toolCall.name, JSONParse(text)),
                queried |-> Queried(obj),
                forwardedTo |-> p]

\* the choices of `failing` in a registry state
FailingChoices(obj, ps) ==
    IF FailingClients(obj, ps) = {} THEN {0} ELSE FailingClients(obj, ps)

\* lastOp before any operation; `name` is the provider or function name the
\* operation was given, `arguments` and `transport` its other inputs
IdleOp == [op |-> "none", error |-> NoError, tools |-> << >>, result |-> "",
           queried |-> {}, forwardedTo |-> 0, name |-> "", arguments |-> "",
           transport |-> ""]

(***************************************************************************)
(* ClientsRegistry operations, as the awaiting application observes them.  *)
(***************************************************************************)
\* transportType === "stdio"
TransportSupported(transportType) == transportType = "stdio"

\* client.connect(transport) resolves
Connects(command) == command # "broken"

\* mutant: the client is stored before the outcome of connect is known
ClientsAfterConnectAlways(obj, name, p, connected) == ObjectSet(obj, name, p)

\* the provider map after `await client.connect(transport)` settled for process p
ClientsAfterConnect(obj, name, p, connected) ==
    IF connected THEN ObjectSet(obj, name, p) ELSE obj

\* register(...) up to `await client.connect(transport)`: an unsupported
\* transport throws; otherwise the provider process is spawned
RegisterSpawn(transportType, name, command) ==
    /\ IF ~TransportSupported(transportType)
       THEN /\ lastOp' = [IdleOp EXCEPT !.op = "register", !.name = name,
                             !.transport = transportType,
                             !.error = Err("UnsupportedTransport", transportType)]
            /\ UNCHANGED <<clients, procs>>
       ELSE /\ Len(procs) < MaxProcs
            /\ procs' = Append(procs, [command |-> command, name |-> name,
                                       transport |-> transportType,
                                       status |-> "connecting", listFails |-> FALSE,
                                       catalog |-> CatalogOf(command)])
            /\ UNCHANGED <<clients, lastOp>>
    /\ UNCHANGED runVars
    /\ UNCHANGED chunkVars

\* the application calls register(...) while no run is in progress
RegisterBegin(transportType, name, command) ==
    /\ pc = "app"
    /\ RegisterSpawn(transportType, name, command)

\* register(...) from the point where client.connect(transport) settles
RegisterConnected(p) ==
    /\ p \in 1..Len(procs)
    /\ procs[p].status = "connecting"
    /\ LET ok == Connects(procs[p].command)
       IN /\ procs' = [procs EXCEPT ![p].status = IF ok THEN "open" ELSE "failed"]
          /\ clients' = ClientsAfterConnect(clients, procs[p].name, p, ok)
          /\ lastOp' = [IdleOp EXCEPT !.op = "register", !.name = procs[p].name,
                           !.transport = procs[p].transport,
                           !.error = IF ok THEN NoError
                                     ELSE Err("ConnectFailed", procs[p].command)]
    /\ UNCHANGED runVars
    /\ UNCHANGED chunkVars

\* the connect of a register(...) settles while no run is in progress
RegisterSettle(p) ==
    /\ pc = "app"
    /\ RegisterConnected(p)

\* the clients whose listTools() answers
Answering(obj, ps) == SelectSeq(obj, LAMBDA entry : ~ps[entry.client].listFails)

\* mutant: the catalogs are gathered as with Promise.allSettled and the
\* providers whose listTools() rejected are left out
GetToolsOutcomeSettled(obj, ps, failing) ==
    [error |-> NoError, tools |-> GetToolsValue(Answering(obj, ps), ps)]

\* how getTools() settles: Promise.all rejects with the first rejection,
\* otherwise the built-ins and the gathered catalogs are returned
GetToolsOutcome(obj, ps, failing) ==
    IF failing = 0
    THEN [error |-> NoError, tools |-> GetToolsValue(obj, ps)]
    ELSE [error |-> Err("ListToolsFailed", obj[failing].name), tools |-> << >>]

\* getTools()
GetTools(failing) ==
    /\ pc = "app"
    /\ failing \in FailingChoices(clients, procs)
    /\ LET out == GetToolsOutcome(clients, procs, failing)
       IN lastOp' = [IdleOp EXCEPT
                       !.op = "getTools",
                       !.queried = Queried(clients),
                       !.error = out.error,
                       !.tools = out.tools]
    /\ UNCHANGED <<clients, procs>>
    /\ UNCHANGED runVars
    /\ UNCHANGED chunkVars

RegistryToolNames == {"task_complete", "hello-world", "nonexistent_tool"}
RegistryArguments == {ArgsUndefined, "", ArgsEmptyObject, ArgsAlice}

\* callTool(toolCall)
CallTool(toolCall, failing) ==
    /\ pc = "app"
    /\ failing \in FailingChoices(clients, procs)
    /\ LET out == CallToolOutcome(clients, procs, toolCall, failing)
       IN lastOp' = [IdleOp EXCEPT !.op = "callTool", !.name = toolCall.name,
                        !.arguments = toolCall.arguments,
                        !.error = out.error, !.result = out.result,
                        !.queried = out.queried, !.forwardedTo = out.forwardedTo]
    /\ UNCHANGED <<clients, procs>>
    /\ UNCHANGED runVars
    /\ UNCHANGED chunkVars

\* a provider's listTools() starts to reject
ProviderFail(p) ==
    /\ p \in 1..Len(procs)
    /\ procs[p].status = "open"
    /\ ~procs[p].listFails
    /\ procs' = [procs EXCEPT ![p].listFails = TRUE]
    /\ UNCHANGED <<clients, lastOp>>
    /\ UNCHANGED runVars
    /\ UNCHANGED chunkVars

\* a provider's listTools() answers again
ProviderRecover(p) ==
    /\ p \in 1..Len(procs)
    /\ procs[p].status = "open"
    /\ procs[p].listFails
    /\ procs' = [procs EXCEPT ![p].listFails = FALSE]
    /\ UNCHANGED <<clients, lastOp>>
    /\ UNCHANGED runVars
    /\ UNCHANGED chunkVars

\* the sequence without its entries equal to x
Without(seq, x) == SelectSeq(seq, LAMBDA y : y # x)

\* a provider stops exposing a tool: its listTools() no longer names it
ProviderUnexposes(p, tool) ==
    /\ p \in 1..Len(procs)
    /\ procs[p].status = "open"
    /\ \E k \in 1..Len(procs[p].catalog) : procs[p].catalog[k] = tool
    /\ procs' = [procs EXCEPT ![p].catalog = Without(procs[p].catalog, tool)]
    /\ UNCHANGED <<clients, lastOp>>
    /\ UNCHANGED runVars
    /\ UNCHANGED chunkVars

\* a provider starts exposing a tool: its listTools() names it from now on
ProviderExposes(p, tool) ==
    /\ p \in 1..Len(procs)
    /\ procs[p].status = "open"
    /\ \A k \in 1..Len(procs[p].catalog) : procs[p].catalog[k] # tool
    /\ procs' = [procs EXCEPT ![p].catalog = Append(procs[p].catalog, tool)]
    /\ UNCHANGED <<clients, lastOp>>
    /\ UNCHANGED runVars
    /\ UNCHANGED chunkVars

\* numbers given to RAG.chunkText: a finite number is kept as twice its value
Finite(twice) == [kind |-> "finite", twice |-> twice]
NaN == [kind |-> "NaN", twice |-> 0]
Infinity == [kind |-> "Infinity", twice |-> 0]
Undefined == [kind |-> "undefined", twice |-> 0]

\* a call of RAG.chunkText(text, size, overlap) that has not returned
PendingChunkCall(text, size, overlapArg) ==
    [called |-> FALSE, text |-> text, size |-> size, overlap |-> overlapArg,
     chunks |-> << >>]

\* nobody calls RAG.chunkText
NoChunkCall == PendingChunkCall(<< >>, NaN, Undefined)

\* the workspace directory without the file
NoFile == [exists |-> FALSE, mtime |-> 0, text |-> << >>]

\* the tables after `CREATE TABLE`: no row, the SERIAL sequences at their start
EmptyStore == [files |-> {}, memory |-> {}, chunks |-> EmptyBag,
               nextFileId |-> 1, nextMemoryId |-> 1]

\* no syncFile was started
NoSyncs == [tasks |-> EmptyBag, started |-> 0, rejected |-> {}]

\* nobody calls createMemory or updateMemory; `i` is the loop variable of
\* indexMemoryById and `returned` the id of the record the call resolved with
NoMemoryCall == [op |-> "none", pc |-> "done", id |-> 0, text |-> << >>,
                 chunks |-> << >>, i |-> 0, returned |-> 0]

\* the RAG facade is not used
IndexIdle ==
    /\ disk = NoFile
    /\ store = EmptyStore
    /\ syncs = NoSyncs
    /\ memoryCall = NoMemoryCall

(***************************************************************************)
(* The registry on its own.                                                *)
(***************************************************************************)
DefaultMaxInteractions == 10

\* RAG.query throws, or returns the documents it found
RetrievalThrows == [throws |-> TRUE, results |-> << >>]
RetrievalReturns(results) == [throws |-> FALSE, results |-> results]

\* run is called without ragQuery and without onStreamAnswer
NoPlannerOptions ==
    /\ ragQuery = ""
    /\ retrieval = RetrievalReturns(<< >>)
    /\ onStreamAnswer = FALSE

IdleRun ==
    /\ variant = "tinyAgents"
    /\ maxInteractions = DefaultMaxInteractions
    /\ hasInputCallback = FALSE
    /\ baseMessages = << >>
    /\ pc = "app"
    /\ NoPlannerOptions
    /\ availableTools = << >>
    /\ conversation = << >>
    /\ llmCalls = << >>
    /\ toolCalls = << >>
    /\ interactionCount = 0
    /\ taskCompleteAck = 0
    /\ toolIdx = 0
    /\ runError = NoError
    /\ dispatched = << >>
    /\ requests = << >>
    /\ streamed = << >>
    /\ arrived = << >>
    /\ asked = << >>

InitRegistry ==
    /\ clients = << >>
    /\ procs = << >>
    /\ lastOp = IdleOp
    /\ IdleRun
    /\ chunkCall = NoChunkCall
    /\ IndexIdle

NextRegistry ==
    \/ \E t \in Transports, n \in ClientNames, c \in Commands : RegisterBegin(t, n, c)
    \/ \E p \in 1..MaxProcs : RegisterSettle(p)
    \/ \E f \in 0..MaxProcs : GetTools(f)
    \/ \E n \in RegistryToolNames, a \in RegistryArguments, f \in 0..MaxProcs :
          CallTool([name |-> n, arguments |-> a], f)
    \/ \E p \in 1..MaxProcs : ProviderFail(p)
    \/ \E p \in 1..MaxProcs : ProviderRecover(p)

SpecRegistry == InitRegistry /\ [][NextRegistry]_vars

(***************************************************************************)
(* TinyAgent.run.                                                          *)
(***************************************************************************)
\* the number of completion acknowledgements that stops the loop
AckThreshold == 2

\* mutant: the ceiling is tested with <= instead of <
LoopContinuesOffByOne(count, max, ack) == count <= max /\ ack < AckThreshold

\* mutant: the acknowledgement counter is not part of the while condition
LoopContinuesNoAck(count, max, ack) == count < max

\* the while condition of the main loop
LoopContinues(count, max, ack) == count < max /\ ack < AckThreshold

SystemMessage ==
    [role |-> "system", content |-> "You are a helpful assistant.",
     tool_calls |-> << >>, tool_call_id |-> 0]
UserMessage ==
    [role |-> "user", content |-> "Just say hi.", tool_calls |-> << >>, tool_call_id |-> 0]

\* the requests a model emits: function name and raw argument string
ModelRequests ==
    { [name |-> "task_complete", arguments |-> ArgsEmptyObject],
      [name |-> "hello-world", arguments |-> ArgsEmptyObject],
      [name |-> "hello-world", arguments |-> ""],
      [name |-> "nonexistent_tool", arguments |-> ArgsFoo],
      [name |-> "ask_question", arguments |-> ArgsQuestion] }

\* the id the model gives the k-th tool call of turn `turn`
CallId(turn, k) == 10 * turn + k

\* an assistant message without tool calls
FinalAnswer ==
    [role |-> "assistant", content |-> "All done, no tools needed.",
     tool_calls |-> << >>, tool_call_id |-> 0]

\* an assistant message requesting the tool calls `reqs` in turn `turn`
ToolRequestMessage(turn, reqs) ==
    [role |-> "assistant", content |-> "<null>",
     tool_calls |-> [k \in 1..Len(reqs) |->
                       [id |-> CallId(turn, k), name |-> reqs[k].name,
                        arguments |-> reqs[k].arguments]],
     tool_call_id |-> 0]

\* sequences over S of length 1..n
SeqUpTo(S, n) == UNION {[1..k -> S] : k \in 1..n}

Min(a, b) == IF a < b THEN a ELSE b

\* what the model may answer in turn `turn` when `used` tool calls were made so far
ModelResponses(turn, used) ==
    {FinalAnswer} \cup
    {ToolRequestMessage(turn, reqs) :
        reqs \in SeqUpTo(ModelRequests, Min(MaxCallsPerTurn, MaxToolCalls - used))}

\* the tool declarations built from the registry's catalog
ToolDeclarations(mcpTools) == [i \in 1..Len(mcpTools) |-> mcpTools[i].name]

\* llmCalls[i].requestMessages: the record holds the conversation array itself
RequestMessages(i) == conversation

\* responseMessage.tool_calls of the current turn
ToolCallsRequested == llmCalls[Len(llmCalls)].responseMessage.tool_calls

\* what the user answers to ask_question
UserInput == "the answer"

\* a document RAG.query finds
Document == [file |-> "notes.md", content |-> "remember"]
OtherDocument == [file |-> "todo.md", content |-> "buy milk"]

\* index + 1 in a template string
IndexText(n) == IF n = 1 THEN "1" ELSE IF n = 2 THEN "2" ELSE "3"

RECURSIVE JoinDocuments(_, _)
\* results.map(`[Document ${index + 1} - ${result.file}]\n${result.content}\n`).join("\n")
JoinDocuments(results, k) ==
    IF k > Len(results) THEN ""
    ELSE "[Document " \o IndexText(k) \o " - " \o results[k].file \o "]\n"
         \o results[k].content \o "\n"
         \o (IF k < Len(results) THEN "\n" ELSE "")
         \o JoinDocuments(results, k + 1)

\* performRAGRetrieval: "" when nothing is found or anything throws
performRAGRetrieval(outcome) ==
    IF outcome.throws THEN ""
    ELSE IF Len(outcome.results) = 0 THEN ""
    ELSE "\n--- RELEVANT CONTEXT FROM KNOWLEDGE BASE ---\n"
         \o JoinDocuments(outcome.results, 1)
         \o "\n--- END CONTEXT ---\n\nBased on the above context, please proceed with the user's request."

\* mutant: an error of the retrieval leaves performRAGRetrieval
RetrievalRejectionUncaught(outcome) ==
    IF outcome.throws THEN Err("RetrievalFailed", "RAG") ELSE NoError

\* what performRAGRetrieval rejects with: nothing, its whole body is in a try
\* whose catch returns ""
RetrievalRejection(outcome) == NoError

\* let ragContext = ""; if (options.ragQuery) ragContext = await performRAGRetrieval(...)
RagContext == IF ragQuery # "" THEN performRAGRetrieval(retrieval) ELSE ""

\* the system-role message that holds the retrieved context
RagMessage(ragContext) ==
    [role |-> "system", content |-> ragContext, tool_calls |-> << >>, tool_call_id |-> 0]

\* mutant: the context is put after the last system message
FindSystemMessageLast(messages) ==
    LET found == {i \in 1..Len(messages) : messages[i].role = "system"}
    IN IF found = {} THEN 0 ELSE CHOOSE i \in found : \A j \in found : i >= j

\* enhancedBaseMessages.findIndex((msg) => msg.role === "system"), 1-based, 0 for none
FindSystemMessage(messages) ==
    LET found == {i \in 1..Len(messages) : messages[i].role = "system"}
    IN IF found = {} THEN 0 ELSE CHOOSE i \in found : \A j \in found : i <= j

\* options.baseMessages after the set-up: splice and unshift are applied to
\* enhancedBaseMessages, a copy made with [...options.baseMessages]
CallerMessagesAfterSetUp(messages, ragContext) == messages

\* mutant: the retrieved context replaces the caller's messages
EnhancedBaseMessagesContextOnly(messages, ragContext) ==
    IF ragContext = "" THEN messages ELSE << RagMessage(ragContext) >>

\* enhancedBaseMessages: a copy of baseMessages with the retrieved context
\* spliced in after the first system message, or put in front
EnhancedBaseMessages(messages, ragContext) ==
    IF ragContext = "" THEN messages
    ELSE LET at == FindSystemMessage(messages)
         IN SubSeq(messages, 1, at) \o << RagMessage(ragContext) >>
            \o SubSeq(messages, at + 1, Len(messages))

\* mutant: the tool declarations are built anew from the registry for each request
CreateRequestRefetched(stream) ==
    [stream |-> stream, messages |-> conversation,
     tools |-> [i \in 1..Len(GetToolsValue(clients, procs)) |->
                  GetToolsValue(clients, procs)[i].name]]

\* a chat.completions.create call: what it sends and whether it asks for a stream
CreateRequest(stream) ==
    [stream |-> stream, messages |-> conversation, tools |-> availableTools]

\* const mcpTools = await this.registry.getTools(), and the set-up of the run
RunStart(failing) ==
    /\ pc = "idle"
    /\ failing \in FailingChoices(clients, procs)
    /\ baseMessages' = CallerMessagesAfterSetUp(baseMessages, RagContext)
    /\ IF ragQuery # "" /\ RetrievalRejection(retrieval) # NoError
       THEN /\ pc' = "failed"
            /\ runError' = RetrievalRejection(retrieval)
            /\ UNCHANGED <<availableTools, conversation>>
       ELSE IF failing # 0
       THEN /\ pc' = "failed"
            /\ runError' = Err("ListToolsFailed", clients[failing].name)
            /\ UNCHANGED <<availableTools, conversation>>
       ELSE /\ pc' = "loop"
            /\ availableTools' = ToolDeclarations(GetToolsValue(clients, procs))
            /\ conversation' = EnhancedBaseMessages(baseMessages, RagContext)
            /\ UNCHANGED runError
    /\ UNCHANGED <<variant, maxInteractions, hasInputCallback,
                   ragQuery, retrieval, onStreamAnswer, llmCalls,
                   toolCalls, interactionCount, taskCompleteAck, toolIdx, dispatched,
                   requests, streamed, arrived,
                   asked>>
    /\ UNCHANGED registryVars
    /\ UNCHANGED chunkVars

\* mutant: no break when the response requests no tool call
AfterResponseNoBreak(responseMessage) ==
    IF Len(responseMessage.tool_calls) = 0 THEN "loop" ELSE "tools"

\* mutant: the for loop over the requested tool calls is skipped
AfterResponseSkipsTools(responseMessage) ==
    IF Len(responseMessage.tool_calls) = 0 THEN "done" ELSE "loop"

\* the position after the assistant's message was appended
AfterResponse(responseMessage) ==
    IF Len(responseMessage.tool_calls) = 0 THEN "done" ELSE "tools"

\* one pass of the loop up to the tool calls: the model is called, its
\* telemetry recorded and its message appended
CallLLM(responseMessage) ==
    /\ pc = "loop"
    /\ ~onStreamAnswer
    /\ LoopContinues(interactionCount, maxInteractions, taskCompleteAck)
    /\ responseMessage \in ModelResponses(interactionCount + 1, Len(toolCalls))
    /\ interactionCount' = interactionCount + 1
    /\ requests' = << CreateRequest(FALSE) >>
    /\ streamed' = << >>
    /\ arrived' = << >>
    /\ UNCHANGED asked
    \* sentLen and sentTools record what was sent to the model; the record's
    \* requestMessages is the conversation array itself (RequestMessages)
    /\ llmCalls' = Append(llmCalls, [sentLen |-> Len(conversation),
                                     sentTools |-> availableTools,
                                     responseMessage |-> responseMessage])
    /\ conversation' = Append(conversation, responseMessage)
    /\ pc' = AfterResponse(responseMessage)
    /\ toolIdx' = 1
    /\ UNCHANGED <<variant, maxInteractions, hasInputCallback, baseMessages,
                   ragQuery, retrieval, onStreamAnswer,
                   availableTools, toolCalls, taskCompleteAck, runError, dispatched>>
    /\ UNCHANGED registryVars
    /\ UNCHANGED chunkVars

\* what a chunk of the stream carries in choices[0].delta
ContentDelta(content) == [kind |-> "content", content |-> content, partial |-> 0]
EmptyDelta == [kind |-> "empty", content |-> "", partial |-> 0]
\* a fragment of a tool call: an id that no complete response uses
PartialToolCallId == 99
ToolCallsDelta == [kind |-> "tool_calls", content |-> "", partial |-> PartialToolCallId]

Deltas == {ContentDelta("The "), ContentDelta("answer"), EmptyDelta, ToolCallsDelta}

\* the streams the model may send: up to MaxDeltas chunks
Streams == UNION {[1..n -> Deltas] : n \in 0..MaxDeltas}

\* the text the chunks of a stream carry, in the order of the chunks
TextFragments(stream) ==
    LET IsText(delta) == delta.kind = "content"
        texts == SelectSeq(stream, IsText)
    IN [i \in 1..Len(texts) |-> texts[i].content]

RECURSIVE ConsumeStreamNewestFirst(_, _, _, _)
\* mutant: a fragment is handed to the callback ahead of the ones before it
ConsumeStreamNewestFirst(stream, k, accumulatedContent, forwarded) ==
    IF k > Len(stream)
    THEN [accumulatedContent |-> accumulatedContent, hasToolCalls |-> FALSE,
          forwarded |-> forwarded]
    ELSE IF stream[k].kind = "tool_calls"
    THEN [accumulatedContent |-> accumulatedContent, hasToolCalls |-> TRUE,
          forwarded |-> forwarded]
    ELSE IF stream[k].kind = "content"
    THEN ConsumeStreamNewestFirst(stream, k + 1,
                                  accumulatedContent \o stream[k].content,
                                  <<stream[k].content>> \o forwarded)
    ELSE ConsumeStreamNewestFirst(stream, k + 1, accumulatedContent, forwarded)

RECURSIVE ConsumeStream(_, _, _, _)
\* for await (const chunk of stream): accumulate and forward the text, stop
\* at the first chunk that carries tool-call data
ConsumeStream(stream, k, accumulatedContent, forwarded) ==
    IF k > Len(stream)
    THEN [accumulatedContent |-> accumulatedContent, hasToolCalls |-> FALSE,
          forwarded |-> forwarded]
    ELSE IF stream[k].kind = "tool_calls"
    THEN [accumulatedContent |-> accumulatedContent, hasToolCalls |-> TRUE,
          forwarded |-> forwarded]
    ELSE IF stream[k].kind = "content"
    THEN ConsumeStream(stream, k + 1, accumulatedContent \o stream[k].content,
                       Append(forwarded, stream[k].content))
    ELSE ConsumeStream(stream, k + 1, accumulatedContent, forwarded)

\* the message made from the accumulated text when the stream had no tool call
StreamedMessage(accumulatedContent) ==
    [role |-> "assistant", content |-> accumulatedContent, tool_calls |-> << >>,
     tool_call_id |-> 0]

\* mutant: the response of the turn is built from the tool-call fragment of the stream
FallbackResponseFromStream(nonStreamResponse) ==
    [role |-> "assistant", content |-> "<null>",
     tool_calls |-> << [id |-> PartialToolCallId, name |-> "hello-world",
                        arguments |-> ArgsEmptyObject] >>,
     tool_call_id |-> 0]

\* responseMessage = nonStreamResponse.choices[0].message
FallbackResponse(nonStreamResponse) == nonStreamResponse

\* one pass of the loop up to the tool calls when onStreamAnswer is supplied:
\* the stream is requested and read; without tool-call data its text is the
\* response, otherwise a second request has to be made
StreamTurn(stream) ==
    /\ pc = "loop"
    /\ onStreamAnswer
    /\ LoopContinues(interactionCount, maxInteractions, taskCompleteAck)
    /\ interactionCount' = interactionCount + 1
    /\ requests' = << CreateRequest(TRUE) >>
    /\ LET read == ConsumeStream(stream, 1, "", << >>)
           responseMessage == StreamedMessage(read.accumulatedContent)
       IN /\ streamed' = read.forwarded
          /\ arrived' = TextFragments(stream)
          /\ UNCHANGED asked
          /\ IF read.hasToolCalls
             THEN /\ pc' = "fallback"
                  /\ UNCHANGED <<llmCalls, conversation, toolIdx>>
             ELSE /\ llmCalls' = Append(llmCalls, [sentLen |-> Len(conversation),
                                                   sentTools |-> availableTools,
                                                   responseMessage |-> responseMessage])
                  /\ conversation' = Append(conversation, responseMessage)
                  /\ pc' = AfterResponse(responseMessage)
                  /\ toolIdx' = 1
    /\ UNCHANGED <<variant, maxInteractions, hasInputCallback, baseMessages,
                   ragQuery, retrieval, onStreamAnswer,
                   availableTools, toolCalls, taskCompleteAck, runError, dispatched>>
    /\ UNCHANGED registryVars
    /\ UNCHANGED chunkVars

\* the non-streaming request made after the stream showed tool-call data
FallbackTurn(nonStreamResponse) ==
    /\ pc = "fallback"
    /\ nonStreamResponse \in ModelResponses(interactionCount, Len(toolCalls))
    /\ requests' = Append(requests, CreateRequest(FALSE))
    /\ LET responseMessage == FallbackResponse(nonStreamResponse)
       IN /\ llmCalls' = Append(llmCalls, [sentLen |-> Len(conversation),
                                           sentTools |-> availableTools,
                                           responseMessage |-> responseMessage])
          /\ conversation' = Append(conversation, responseMessage)
          /\ pc' = AfterResponse(responseMessage)
    /\ toolIdx' = 1
    /\ UNCHANGED <<variant, maxInteractions, hasInputCallback, baseMessages,
                   ragQuery, retrieval, onStreamAnswer,
                   availableTools, toolCalls, taskCompleteAck, runError, dispatched,
                   interactionCount, streamed, arrived,
                   asked>>
    /\ UNCHANGED registryVars
    /\ UNCHANGED chunkVars

\* the while condition is false: run returns {conversation, llmCalls, toolCalls}
Return ==
    /\ pc = "loop"
    /\ ~LoopContinues(interactionCount, maxInteractions, taskCompleteAck)
    /\ pc' = "done"
    /\ UNCHANGED <<variant, maxInteractions, hasInputCallback, baseMessages,
                   ragQuery, retrieval, onStreamAnswer,
                   availableTools, conversation, llmCalls, toolCalls, interactionCount,
                   taskCompleteAck, toolIdx, runError, dispatched, requests, streamed, arrived,
                   asked>>
    /\ UNCHANGED registryVars
    /\ UNCHANGED chunkVars

\* functionName === "task_complete"
IsCompletionSignal(functionName) == functionName = "task_complete"

\* mutant: ask_question has no branch of its own and goes to the registry
IsClarificationSignalNever(v, functionName) == FALSE

\* functionName === "ask_question", a branch only plannerAgent's run has
IsClarificationSignal(v, functionName) ==
    v = "plannerAgent" /\ functionName = "ask_question"

\* mutant: an error of registry.callTool is caught per call and the loop goes on
ToolCallOutcomeSwallow(v, callback, obj, ps, toolCall, failing) ==
    LET text == FalsyDefault(toolCall.arguments)
        none == [error |-> NoError, result |-> "", ack |-> 0, dispatch |-> << >>,
                 asks |-> << >>]
    IN IF ~JSONParses(text)
       THEN [none EXCEPT !.error = Err("SyntaxError", text)]
       ELSE IF IsCompletionSignal(toolCall.name)
       THEN [none EXCEPT !.ack = 1]
       ELSE IF IsClarificationSignal(v, toolCall.name)
       THEN IF ~callback
            THEN [none EXCEPT !.error = Err("MissingInputCallback", "ask_question")]
            ELSE [none EXCEPT !.result = UserInput,
                              !.asks = << Prop(JSONParse(text), "questions") >>]
       ELSE LET out == CallToolOutcome(obj, ps, toolCall, failing)
            IN [error |-> NoError, result |-> out.result, ack |-> 0, asks |-> << >>,
                dispatch |-> << [id |-> toolCall.id, name |-> toolCall.name,
                                 error |-> out.error,
                                 queried |-> out.queried,
                                 forwardedTo |-> out.forwardedTo] >>]

\* The body of the for loop for one tool call, up to the point where its
\* result is known: the error thrown (if any), the result, the increment of
\* taskCompleteAck and the registry.callTool invocation made (if any).
ToolCallOutcome(v, callback, obj, ps, toolCall, failing) ==
    LET text == FalsyDefault(toolCall.arguments)
        none == [error |-> NoError, result |-> "", ack |-> 0, dispatch |-> << >>,
                 asks |-> << >>]
    IN IF ~JSONParses(text)
       THEN [none EXCEPT !.error = Err("SyntaxError", text)]
       ELSE IF IsCompletionSignal(toolCall.name)
       THEN [none EXCEPT !.ack = 1]
       ELSE IF IsClarificationSignal(v, toolCall.name)
       THEN IF ~callback
            THEN [none EXCEPT !.error = Err("MissingInputCallback", "ask_question")]
            ELSE [none EXCEPT !.result = UserInput,
                              !.asks = << Prop(JSONParse(text), "questions") >>]
       ELSE LET out == CallToolOutcome(obj, ps, toolCall, failing)
            IN [error |-> out.error, result |-> out.result, ack |-> 0, asks |-> << >>,
                dispatch |-> << [id |-> toolCall.id, name |-> toolCall.name,
                                 error |-> out.error,
                                 queried |-> out.queried,
                                 forwardedTo |-> out.forwardedTo] >>]

\* mutant: the tool-role message does not carry the id of its tool call
ToolOutputMessageNoId(toolCallId, result) ==
    [role |-> "tool", content |-> JSONStringify(result), tool_calls |-> << >>,
     tool_call_id |-> 0]

\* mutant: the output of a tool is appended as a message of the assistant
ToolOutputMessageAsAssistant(toolCallId, result) ==
    [role |-> "assistant", content |-> JSONStringify(result), tool_calls |-> << >>,
     tool_call_id |-> toolCallId]

\* the tool-role message appended for a tool call
ToolOutputMessage(toolCallId, result) ==
    [role |-> "tool", content |-> JSONStringify(result), tool_calls |-> << >>,
     tool_call_id |-> toolCallId]

\* mutant: the for loop stops after the first tool call
AfterToolCallFirstOnly(idx, n) == "loop"

\* mutant: the for loop is left as soon as the second acknowledgement is counted
AfterToolCallStopsOnAck(idx, n) ==
    IF idx >= n \/ taskCompleteAck' >= AckThreshold THEN "loop" ELSE "tools"

\* the position after tool call idx of n was handled
AfterToolCall(idx, n) == IF idx >= n THEN "loop" ELSE "tools"

\* mutant: the for loop walks toolCallsRequested from its end
CurrentToolCallFromEnd(requested, idx) == requested[Len(requested) - idx + 1]

\* for (const toolCall of toolCallsRequested): the tool call of pass idx
CurrentToolCall(requested, idx) == requested[idx]

\* one pass of the for loop over toolCallsRequested
ToolCallStep(failing) ==
    /\ pc = "tools"
    /\ failing \in FailingChoices(clients, procs)
    /\ LET toolCall == CurrentToolCall(ToolCallsRequested, toolIdx)
           out == ToolCallOutcome(variant, hasInputCallback, clients, procs,
                                  toolCall, failing)
       IN /\ dispatched' = dispatched \o out.dispatch
          /\ asked' = asked \o out.asks
          /\ IF out.error # NoError
             THEN /\ pc' = "failed"
                  /\ runError' = out.error
                  /\ UNCHANGED <<taskCompleteAck, toolCalls, conversation, toolIdx>>
             ELSE /\ taskCompleteAck' = taskCompleteAck + out.ack
                  /\ toolCalls' = Append(toolCalls,
                                    [toolCallId |-> toolCall.id,
                                     toolName |-> toolCall.name,
                                     params |-> JSONParse(FalsyDefault(toolCall.arguments)),
                                     result |-> out.result])
                  /\ conversation' = Append(conversation,
                                        ToolOutputMessage(toolCall.id, out.result))
                  /\ toolIdx' = toolIdx + 1
                  /\ pc' = AfterToolCall(toolIdx, Len(ToolCallsRequested))
                  /\ UNCHANGED runError
    /\ UNCHANGED <<variant, maxInteractions, hasInputCallback, baseMessages,
                   ragQuery, retrieval, onStreamAnswer,
                   availableTools, llmCalls, interactionCount, requests, streamed, arrived>>
    /\ UNCHANGED registryVars
    /\ UNCHANGED chunkVars

(***************************************************************************)
(* One run over a registry the application has set up.                     *)
(***************************************************************************)
\* the provider process the application registered, by its command
OpenProc(command, name) ==
    [command |-> command, name |-> name, transport |-> "stdio", status |-> "open",
     listFails |-> FALSE, catalog |-> CatalogOf(command)]

\* registries after the application's set-up: no provider, the hello-world
\* fixture, or a provider shadowing the built-in
InitClients ==
    \/ /\ procs = << >>
       /\ clients = << >>
    \/ \E c \in {"hello", "shadow"} :
          /\ procs = << OpenProc(c, "hello-world-client") >>
          /\ clients = ClientsAfterConnect(<< >>, "hello-world-client", 1, TRUE)

MaxInteractionsChoices == {1, 2, DefaultMaxInteractions}

Init ==
    /\ InitClients
    /\ lastOp = IdleOp
    /\ variant \in {"tinyAgents", "plannerAgent"}
    /\ hasInputCallback \in {b \in BOOLEAN : b => variant = "plannerAgent"}
    /\ maxInteractions \in MaxInteractionsChoices
    /\ baseMessages \in {<<SystemMessage, UserMessage>>, <<UserMessage>>}
    /\ pc = "idle"
    /\ NoPlannerOptions
    /\ availableTools = << >>
    /\ conversation = << >>
    /\ llmCalls = << >>
    /\ toolCalls = << >>
    /\ interactionCount = 0
    /\ taskCompleteAck = 0
    /\ toolIdx = 0
    /\ runError = NoError
    /\ dispatched = << >>
    /\ requests = << >>
    /\ streamed = << >>
    /\ arrived = << >>
    /\ asked = << >>
    /\ chunkCall = NoChunkCall
    /\ IndexIdle

\* the model-calling capability answers with any of the responses it may give
ModelTurn ==
    \E m \in ModelResponses(interactionCount + 1, Len(toolCalls)) : CallLLM(m)

Next ==
    \/ \E f \in 0..MaxProcs : RunStart(f)
    \/ ModelTurn
    \/ Return
    \/ \E f \in 0..MaxProcs : ToolCallStep(f)
    \/ \E p \in 1..MaxProcs : ProviderFail(p)
    \/ \E p \in 1..MaxProcs : ProviderRecover(p)

Spec == Init /\ [][Next]_vars

(***************************************************************************)
(* One run of plannerAgent's TinyAgent with its options: a retrieval query *)
(* or a stream callback.                                                   *)
(***************************************************************************)
Retrievals ==
    {RetrievalThrows, RetrievalReturns(<< >>), RetrievalReturns(<< Document >>),
     RetrievalReturns(<< Document, OtherDocument >>)}

\* the message lists a caller passes: with the system prompt first, without
\* one, and with system messages further down
PlannerBaseMessages ==
    {<<SystemMessage, UserMessage>>, <<UserMessage>>,
     <<UserMessage, SystemMessage, UserMessage, SystemMessage>>}

\* the set-up of a run of plannerAgent's TinyAgent over the hello-world fixture
PlannerRun ==
    /\ procs = << OpenProc("hello", "hello-world-client") >>
    /\ clients = ClientsAfterConnect(<< >>, "hello-world-client", 1, TRUE)
    /\ lastOp = IdleOp
    /\ variant = "plannerAgent"
    /\ hasInputCallback \in BOOLEAN
    /\ maxInteractions \in MaxInteractionsChoices
    /\ baseMessages \in PlannerBaseMessages
    /\ pc = "idle"
    /\ availableTools = << >>
    /\ conversation = << >>
    /\ llmCalls = << >>
    /\ toolCalls = << >>
    /\ interactionCount = 0
    /\ taskCompleteAck = 0
    /\ toolIdx = 0
    /\ runError = NoError
    /\ dispatched = << >>
    /\ requests = << >>
    /\ streamed = << >>
    /\ arrived = << >>
    /\ asked = << >>
    /\ chunkCall = NoChunkCall
    /\ IndexIdle

\* a run with any retrieval option and no stream callback
InitRetrieval ==
    /\ PlannerRun
    /\ ragQuery \in {"", "what do I know?"}
    /\ retrieval \in {r \in Retrievals : ragQuery = "" => r = RetrievalReturns(<< >>)}
    /\ onStreamAnswer = FALSE

NextRetrieval ==
    \/ \E f \in 0..MaxProcs : RunStart(f)
    \/ ModelTurn
    \/ Return
    \/ \E f \in 0..MaxProcs : ToolCallStep(f)

SpecRetrieval == InitRetrieval /\ [][NextRetrieval]_vars

\* a run with a stream callback and no retrieval query, over the system
\* prompt and one user message
InitStream ==
    /\ PlannerRun
    /\ baseMessages = <<SystemMessage, UserMessage>>
    /\ ragQuery = ""
    /\ retrieval = RetrievalReturns(<< >>)
    /\ onStreamAnswer = TRUE

StreamedTurn == \E stream \in Streams : StreamTurn(stream)

FallbackModelTurn ==
    \E m \in ModelResponses(interactionCount, Len(toolCalls)) : FallbackTurn(m)

NextStream ==
    \/ \E f \in 0..MaxProcs : RunStart(f)
    \/ StreamedTurn
    \/ FallbackModelTurn
    \/ Return
    \/ \E f \in 0..MaxProcs : ToolCallStep(f)

SpecStream == InitStream /\ [][NextStream]_vars

(***************************************************************************)
(* A run of tinyAgents over a registry that changes while it is in         *)
(* progress: providers change what they expose and whether their           *)
(* listTools() answers, and the application registers another provider.    *)
(***************************************************************************)
\* the tool a provider may stop or start exposing
LiveTools == {"hello-world"}

\* the requests of the model in these runs
LiveRequests ==
    { [name |-> "task_complete", arguments |-> ArgsEmptyObject],
      [name |-> "hello-world", arguments |-> ArgsEmptyObject] }

\* the model answers with a final message or requests one tool call
LiveResponses(turn, used) ==
    {FinalAnswer} \cup
    {ToolRequestMessage(turn, reqs) :
        reqs \in SeqUpTo(LiveRequests, Min(1, MaxToolCalls - used))}

\* run has not returned or thrown
RunInProgress == pc \in {"idle", "loop", "tools"}

InitLive ==
    /\ procs = << OpenProc("hello", "hello-world-client") >>
    /\ clients = ClientsAfterConnect(<< >>, "hello-world-client", 1, TRUE)
    /\ lastOp = IdleOp
    /\ variant = "tinyAgents"
    /\ hasInputCallback = FALSE
    /\ maxInteractions = 2
    /\ baseMessages = <<SystemMessage, UserMessage>>
    /\ pc = "idle"
    /\ NoPlannerOptions
    /\ availableTools = << >>
    /\ conversation = << >>
    /\ llmCalls = << >>
    /\ toolCalls = << >>
    /\ interactionCount = 0
    /\ taskCompleteAck = 0
    /\ toolIdx = 0
    /\ runError = NoError
    /\ dispatched = << >>
    /\ requests = << >>
    /\ streamed = << >>
    /\ arrived = << >>
    /\ asked = << >>
    /\ chunkCall = NoChunkCall
    /\ IndexIdle

LiveModelTurn ==
    \E m \in LiveResponses(interactionCount + 1, Len(toolCalls)) : CallLLM(m)

\* the application registers one more provider while the run is in progress
RegisterDuringRun ==
    /\ RunInProgress
    /\ Len(procs) = 1
    /\ \E command \in {"hello", "shadow"} : RegisterSpawn("stdio", "7", command)

RegisterSettlesDuringRun ==
    /\ RunInProgress
    /\ \E p \in 1..MaxProcs : RegisterConnected(p)

CatalogChanges ==
    /\ RunInProgress
    /\ \E p \in 1..MaxProcs, tool \in LiveTools :
          ProviderUnexposes(p, tool) \/ ProviderExposes(p, tool)

HealthChanges ==
    /\ RunInProgress
    /\ \E p \in 1..MaxProcs : ProviderFail(p) \/ ProviderRecover(p)

NextLive ==
    \/ \E f \in 0..MaxProcs : RunStart(f)
    \/ LiveModelTurn
    \/ Return
    \/ \E f \in 0..MaxProcs : ToolCallStep(f)
    \/ RegisterDuringRun
    \/ RegisterSettlesDuringRun
    \/ CatalogChanges
    \/ HealthChanges

SpecLive == InitLive /\ [][NextLive]_vars

(***************************************************************************)
(* Both: the application either drives the registry or starts a run.       *)
(***************************************************************************)
InitAll == Init \/ InitRegistry

NextAll == Next \/ NextRegistry

SpecAll == InitAll /\ [][NextAll]_vars

(***************************************************************************)
(* RAG.chunkText.  A text is a sequence of characters; a number is a       *)
(* record, so that NaN, Infinity and sizes that are not whole numbers are  *)
(* inputs too: a finite number is kept as twice its value.                 *)
(***************************************************************************)
Alphabet == {"a", "b", " ", "\n"}

Texts == UNION {[1..n -> Alphabet] : n \in 0..MaxTextLen}

\* Number.isFinite
IsFinite(n) == n.kind = "finite"

\* the sizes a caller passes: -1, 0, 0.5, 1, 1.5, ... MaxSize, NaN, Infinity
Sizes == {Finite(-2)} \cup {Finite(w) : w \in 0..(2 * MaxSize)} \cup {NaN, Infinity}

\* the overlaps a caller passes: none, NaN, -1, 0, 1, ... MaxOverlap
Overlaps == {Undefined, NaN} \cup {Finite(2 * o) : o \in (-1)..MaxOverlap}

Max(a, b) == IF a > b THEN a ELSE b

\* t.slice(from, to) for whole from, to >= 0
Slice(t, from, to) == SubSeq(t, Min(from, Len(t)) + 1, Min(to, Len(t)))

\* t.slice(from)
SliceFrom(t, from) == Slice(t, from, Len(t))

\* paragraphs -> lines -> words -> chars
SEPARATORS == << <<"\n", "\n">>, <<"\n">>, <<" ">>, << >> >>

\* t.includes(sep)
Includes(t, sep) ==
    \E k \in 1..(Len(t) - Len(sep) + 1) : SubSeq(t, k, k + Len(sep) - 1) = sep

RECURSIVE Split(_, _)
\* t.split(sep) for a non-empty sep
Split(t, sep) ==
    IF ~Includes(t, sep) THEN << t >>
    ELSE LET k == CHOOSE k \in 1..(Len(t) - Len(sep) + 1) :
                     /\ SubSeq(t, k, k + Len(sep) - 1) = sep
                     /\ \A j \in 1..(k - 1) : SubSeq(t, j, j + Len(sep) - 1) # sep
         IN << SubSeq(t, 1, k - 1) >> \o Split(SubSeq(t, k + Len(sep), Len(t)), sep)

\* the overlap chunkText works with
\* (default Math.floor(size * 0.15); negative or not finite -> 0; >= size -> size / 3)
EffectiveOverlap(size, overlapArg) ==
    LET given == IF overlapArg.kind = "undefined"
                 THEN Finite(2 * ((size.twice * 15) \div 200))
                 ELSE overlapArg
        sane == IF ~IsFinite(given) \/ given.twice < 0 THEN 0 ELSE given.twice \div 2
    IN IF 2 * sane >= size.twice THEN Max(0, size.twice \div 6) ELSE sane

\* for (j = 0; j < t.length; j += max) out.push(t.slice(j, j + max))
CharSplit(t, maxTwice) ==
    LET n == (2 * Len(t) + maxTwice - 1) \div maxTwice
    IN [k \in 1..n |-> Slice(t, ((k - 1) * maxTwice) \div 2, (k * maxTwice) \div 2)]

RECURSIVE Merge(_, _, _, _, _, _)
\* "Merge with max size constraint": parts[k..] joined by sep into chunks of
\* at most max characters; current is the chunk being built
Merge(parts, k, baseChunks, current, sep, maxTwice) ==
    IF k > Len(parts)
    THEN IF current # << >> THEN Append(baseChunks, current) ELSE baseChunks
    ELSE LET p == parts[k]
         IN IF p = << >> THEN Merge(parts, k + 1, baseChunks, current, sep, maxTwice)
            ELSE IF Len(current) = 0
                 THEN Merge(parts, k + 1, baseChunks, p, sep, maxTwice)
            ELSE IF 2 * (Len(current) + Len(sep) + Len(p)) <= maxTwice
                 THEN Merge(parts, k + 1, baseChunks, current \o sep \o p, sep, maxTwice)
            ELSE Merge(parts, k + 1, Append(baseChunks, current), p, sep, maxTwice)

\* stands for a loop that never ends
LoopsForever == << <<"loops forever">> >>

RECURSIVE RestChunks(_, _)
\* while (rest.length > 0) { push(rest.slice(0, size)); rest = rest.slice(size) }
RestChunks(rest, n) ==
    IF Len(rest) = 0 THEN << >>
    ELSE IF n = 0 THEN LoopsForever
    ELSE << Slice(rest, 0, n) >> \o RestChunks(SliceFrom(rest, n), n)

\* what one round of the overlap loop pushes for baseChunks[k] = next
OverlappedNext(prev, next, overlap, sizeTwice) ==
    LET seed == SliceFrom(prev, Max(0, Len(prev) - overlap))
        availableTwice == sizeTwice - 2 * Len(seed)
        keep == Max(0, (sizeTwice - 2) \div 2)
        croppedSeed == IF keep = 0 THEN seed ELSE SliceFrom(seed, Max(0, Len(seed) - keep))
    IN IF availableTwice <= 0
       THEN << croppedSeed >> \o RestChunks(next, sizeTwice \div 2)
       ELSE IF 2 * Len(next) > availableTwice
            THEN << seed \o Slice(next, 0, availableTwice \div 2) >>
            ELSE << seed \o next >>

RECURSIVE Overlapped(_, _, _, _, _)
\* "Apply overlap": for (k = 1; k < baseChunks.length; k++) ...
Overlapped(baseChunks, k, overlapped, overlap, sizeTwice) ==
    IF k > Len(baseChunks) THEN overlapped
    ELSE Overlapped(baseChunks, k + 1,
                    overlapped \o OverlappedNext(overlapped[Len(overlapped)],
                                                 baseChunks[k], overlap, sizeTwice),
                    overlap, sizeTwice)

\* the chunks of one separator level, from its merged baseChunks
ApplyOverlap(baseChunks, overlap, sizeTwice) ==
    IF overlap <= 0 \/ Len(baseChunks) <= 1 THEN baseChunks
    ELSE Overlapped(baseChunks, 2, << baseChunks[1] >>, overlap, sizeTwice)

\* seps.slice(i)
SepsFrom(seps, i) == SubSeq(seps, i, Len(seps))

RECURSIVE splitRecursive(_, _, _, _, _)
RECURSIVE Parts(_, _, _, _, _, _)
\* the parts of one separator level: the non-empty rawParts, those longer
\* than max replaced by their own split at the next separators
Parts(rawParts, k, maxTwice, seps, sizeTwice, overlap) ==
    IF k > Len(rawParts) THEN << >>
    ELSE LET part == rawParts[k]
             rest == Parts(rawParts, k + 1, maxTwice, seps, sizeTwice, overlap)
         IN IF part = << >> THEN rest
            ELSE IF 2 * Len(part) <= maxTwice THEN << part >> \o rest
            ELSE splitRecursive(part, maxTwice, seps, sizeTwice, overlap) \o rest

splitRecursive(input, maxTwice, seps, sizeTwice, overlap) ==
    IF 2 * Len(input) <= maxTwice THEN << input >>
    ELSE LET usable == {i \in 1..Len(seps) : seps[i] = << >> \/ Includes(input, seps[i])}
         IN IF usable = {} THEN CharSplit(input, maxTwice)
            ELSE LET i == CHOOSE i \in usable : \A j \in usable : i <= j
                     sep == seps[i]
                 IN IF sep = << >> THEN CharSplit(input, maxTwice)
                    ELSE ApplyOverlap(
                             Merge(Parts(Split(input, sep), 1, maxTwice,
                                         SepsFrom(seps, i + 1), sizeTwice, overlap),
                                   1, << >>, << >>, sep, maxTwice),
                             overlap, sizeTwice)

\* chunkText without its policy for sizes <= 0
chunkTextFiniteOnly(text, size, overlapArg) ==
    IF ~IsFinite(size) THEN << text >>
    ELSE IF size.twice <= 0 THEN << >>
    ELSE splitRecursive(text, size.twice, SEPARATORS, size.twice,
                        EffectiveOverlap(size, overlapArg))

\* RAG.chunkText(text, size, overlap)
chunkText(text, size, overlapArg) ==
    IF ~IsFinite(size) \/ size.twice <= 0 THEN << text >>
    ELSE splitRecursive(text, size.twice, SEPARATORS, size.twice,
                        EffectiveOverlap(size, overlapArg))

\* the pending call returns
ChunkText ==
    /\ ~chunkCall.called
    /\ chunkCall' = [chunkCall EXCEPT
                       !.called = TRUE,
                       !.chunks = chunkText(chunkCall.text, chunkCall.size,
                                            chunkCall.overlap)]
    /\ UNCHANGED <<registryVars, runVars, indexVars>>

InitChunk ==
    /\ clients = << >>
    /\ procs = << >>
    /\ lastOp = IdleOp
    /\ IdleRun
    /\ \E text \in Texts, size \in Sizes, overlapArg \in Overlaps :
          chunkCall = PendingChunkCall(text, size, overlapArg)
    /\ IndexIdle

NextChunk == ChunkText

SpecChunk == InitChunk /\ [][NextChunk]_vars

(***************************************************************************)
(* Properties of the agent loop.                                           *)
(***************************************************************************)
\* the positions of the assistant messages in the conversation
AssistantPositions == {j \in 1..Len(conversation) : conversation[j].role = "assistant"}

\* the number of tool-role messages before position j
ToolMessagesBefore(j) == Cardinality({k \in 1..(j - 1) : conversation[k].role = "tool"})

\* the for loop over the tool calls of the assistant message at j has finished
TurnFinished(j) ==
    \/ \E k \in AssistantPositions : k > j
    \/ pc \in {"loop", "done"}

\* the tool calls requested at position j were all recorded and appended, in order
ToolCallsAnswered(j) ==
    LET calls == conversation[j].tool_calls
        off == ToolMessagesBefore(j)
    IN /\ Len(conversation) >= j + Len(calls)
       /\ Len(toolCalls) >= off + Len(calls)
       /\ \A i \in 1..Len(calls) :
             /\ conversation[j + i].role = "tool"
             /\ conversation[j + i].tool_call_id = calls[i].id
             /\ toolCalls[off + i].toolCallId = calls[i].id
             /\ toolCalls[off + i].toolName = calls[i].name
       /\ Len(conversation) > j + Len(calls) =>
             conversation[j + Len(calls) + 1].role # "tool"

\* C1: a response without tool-call requests ends the run right after it is
\* appended; when it is the first response the run made exactly one model
\* call, dispatched no tool, and the conversation is baseMessages followed by
\* that single assistant message.
C1_NoToolCallsEndsRun ==
    /\ \A t \in 1..Len(llmCalls) :
          Len(llmCalls[t].responseMessage.tool_calls) = 0 =>
             /\ t = Len(llmCalls)
             /\ pc = "done"
             /\ conversation[Len(conversation)] = llmCalls[t].responseMessage
    /\ (Len(llmCalls) >= 1 /\ Len(llmCalls[1].responseMessage.tool_calls) = 0) =>
          /\ Len(llmCalls) = 1
          /\ toolCalls = << >>
          /\ dispatched = << >>
          /\ conversation = Append(baseMessages, llmCalls[1].responseMessage)

C1_Witness ==
    /\ pc = "done"
    /\ Len(llmCalls) = 1
    /\ Len(llmCalls[1].responseMessage.tool_calls) = 0
    /\ Len(conversation) = 3
    /\ clients # << >>

\* C2: a run makes at most maxInteractions model calls, and reaching the
\* ceiling is a normal return: a run that ended on a response with tool calls
\* ended at the ceiling (or on the second acknowledgement), without error, and
\* every tool call of that last turn was recorded and appended; with
\* maxInteractions = 1 that is exactly one model call.
C2_AtMostMaxInteractions ==
    /\ Len(llmCalls) <= maxInteractions
    /\ Len(llmCalls) = interactionCount
    /\ pc \in {"loop", "tools", "done"} => runError = NoError
    /\ (pc = "done" /\ llmCalls # << >>
           /\ Len(llmCalls[Len(llmCalls)].responseMessage.tool_calls) > 0) =>
          /\ Len(llmCalls) = maxInteractions \/ taskCompleteAck >= 2
          /\ maxInteractions = 1 => Len(llmCalls) = 1
          /\ conversation[llmCalls[Len(llmCalls)].sentLen + 1]
                = llmCalls[Len(llmCalls)].responseMessage
          /\ ToolCallsAnswered(llmCalls[Len(llmCalls)].sentLen + 1)
          /\ Len(conversation) = llmCalls[Len(llmCalls)].sentLen + 1
                + Len(llmCalls[Len(llmCalls)].responseMessage.tool_calls)

C2_Witness ==
    /\ pc = "done"
    /\ maxInteractions = 1
    /\ Len(llmCalls) = 1
    /\ Len(toolCalls) = 2
    /\ taskCompleteAck = 0

\* the response of turn t requests task_complete and nothing else
OnlyTaskComplete(t) ==
    /\ Len(llmCalls[t].responseMessage.tool_calls) = 1
    /\ llmCalls[t].responseMessage.tool_calls[1].name = "task_complete"

\* the scenario of C3: task_complete alone in each of the first two turns
C3_Scenario ==
    (/\ maxInteractions = 10
     /\ Len(llmCalls) >= 2
     /\ OnlyTaskComplete(1)
     /\ OnlyTaskComplete(2)) =>
       /\ Len(llmCalls) = 2
       /\ pc # "failed"
       /\ pc \in {"loop", "done"} => taskCompleteAck = 2 /\ Len(toolCalls) = 2

\* C3: with task_complete alone in two successive turns and maxInteractions =
\* 10 the run ends normally after exactly 2 model calls; in general no model
\* call is issued once the completion signal was acknowledged twice, and the
\* loop then only returns.
C3_NoModelCallAfterTwoAcks ==
    /\ []C3_Scenario
    /\ [][taskCompleteAck >= 2 =>
            /\ llmCalls' = llmCalls
            /\ pc = "loop" => pc' \in {"loop", "done"}]_vars

C3_Witness ==
    /\ pc = "done"
    /\ maxInteractions = 10
    /\ Len(llmCalls) = 2
    /\ OnlyTaskComplete(1)
    /\ OnlyTaskComplete(2)
    /\ taskCompleteAck = 2

\* C4: for every turn whose N requested tool calls all completed, exactly N
\* tool-role messages follow the assistant message directly, the i-th with the
\* tool_call_id of the i-th request, and the N telemetry entries are appended
\* in the same order; telemetry entries and tool messages correspond one to one.
C4_ToolMessagesInOrder ==
    /\ \A j \in AssistantPositions : TurnFinished(j) => ToolCallsAnswered(j)
    /\ Len(toolCalls) = ToolMessagesBefore(Len(conversation) + 1)

C4_Witness ==
    /\ pc = "done"
    /\ \E j \in AssistantPositions :
          /\ Len(conversation[j].tool_calls) = 2
          /\ conversation[j].tool_calls[1].name # conversation[j].tool_calls[2].name
          /\ \E k \in AssistantPositions : k > j

(***************************************************************************)
(* Properties of the completion signal and of tool lookup.                 *)
(***************************************************************************)
\* the argument string of the last callTool parses (after the ?? default)
LastArgumentsParse(op) == JSONParses(NullishDefault(op.arguments))

\* some built-in or some registered provider exposes functionName
Exposed(functionName) ==
    \/ \E i \in 1..Len(defaultTools) : defaultTools[i].name = functionName
    \/ \E i \in 1..Len(clients) :
          \E k \in 1..Len(CatalogOf(procs[clients[i].client].command)) :
             CatalogOf(procs[clients[i].client].command)[k] = functionName

\* a provider registered in the map exposes a tool named task_complete
ShadowRegistered ==
    \E i \in 1..Len(clients) : procs[clients[i].client].command = "shadow"

\* the run never hands task_complete to the registry, the tool call on which
\* a run failed is never task_complete, and in the current state of the
\* providers the loop acknowledges a task_complete request (arguments absent,
\* blank or {}) without error and without calling the registry
C5_LoopNeverDispatches ==
    /\ \A i \in 1..Len(dispatched) : dispatched[i].name # "task_complete"
    /\ (pc = "failed" /\ llmCalls # << >>) =>
          ToolCallsRequested[toolIdx].name # "task_complete"
    /\ \A a \in {ArgsUndefined, "", ArgsEmptyObject} :
          \A f \in FailingChoices(clients, procs) :
             LET out == ToolCallOutcome(variant, hasInputCallback, clients, procs,
                                        [id |-> 0, name |-> "task_complete",
                                         arguments |-> a], f)
             IN out.error = NoError /\ out.dispatch = << >> /\ out.ack = 1

\* C5 as stated: task_complete is never forwarded to a provider and never
\* fails, in the loop and in registry.callTool, whatever the providers' state
\* (stated here for argument strings that parse, so that the failure found is
\* one of provider state alone).
C5_NeverFails ==
    /\ C5_LoopNeverDispatches
    /\ (lastOp.op = "callTool" /\ lastOp.name = "task_complete"
           /\ LastArgumentsParse(lastOp)) =>
          /\ lastOp.forwardedTo = 0
          /\ lastOp.error = NoError

\* C5 amended: task_complete is never forwarded to a provider in any provider
\* state, and inside the agent loop it never fails; registry.callTool with
\* that name resolves with the no-op result exactly when its argument string
\* parses and no registered provider's catalog fetch fails, and fails
\* otherwise.
C5_NeverForwarded ==
    /\ [](/\ C5_LoopNeverDispatches
          /\ (lastOp.op = "callTool" /\ lastOp.name = "task_complete") =>
                lastOp.forwardedTo = 0 /\ lastOp.result = "")
    /\ [][(/\ lastOp' # lastOp
           /\ lastOp'.op = "callTool"
           /\ lastOp'.name = "task_complete") =>
             (lastOp'.error = NoError <=>
                (LastArgumentsParse(lastOp') /\ FailingClients(clients, procs) = {}))]_vars

C5_Witness ==
    /\ lastOp.op = "callTool"
    /\ lastOp.name = "task_complete"
    /\ lastOp.error.kind = "ListToolsFailed"
    /\ ShadowRegistered

\* C6 as stated: callTool on a name nothing exposes always fails with
\* ToolNotFound carrying the name and forwards nothing (stated here for
\* argument strings that parse).
C6_AlwaysToolNotFound ==
    (lastOp.op = "callTool" /\ lastOp.name = "nonexistent_tool"
        /\ LastArgumentsParse(lastOp)) =>
       /\ lastOp.error = Err("ToolNotFound", "nonexistent_tool")
       /\ lastOp.forwardedTo = 0

\* C6 amended: callTool on a name that no built-in and no registered provider
\* exposes always fails and forwards nothing; the error is ToolNotFound
\* carrying the name when the argument string parses and every provider's
\* catalog fetch succeeds (with zero providers or with providers none of which
\* exposes the name); an argument string that does not parse fails with the
\* parse error, and a failing catalog fetch fails the call with that error.
C6_UnknownToolFails ==
    [][(/\ lastOp' # lastOp
        /\ lastOp'.op = "callTool"
        /\ ~Exposed(lastOp'.name)) =>
          /\ lastOp'.error # NoError
          /\ lastOp'.forwardedTo = 0
          /\ lastOp'.error.kind = "SyntaxError" <=> ~LastArgumentsParse(lastOp')
          /\ lastOp'.error.kind = "ListToolsFailed" <=>
                (LastArgumentsParse(lastOp') /\ FailingClients(clients, procs) # {})
          /\ lastOp'.error = Err("ToolNotFound", lastOp'.name) <=>
                (LastArgumentsParse(lastOp') /\ FailingClients(clients, procs) = {})]_vars

C6_Witness ==
    /\ lastOp.op = "callTool"
    /\ lastOp.name = "nonexistent_tool"
    /\ lastOp.error = Err("ToolNotFound", "nonexistent_tool")
    /\ Len(clients) = 2

\* the run's last registry.callTool raised ToolNotFound
ToolNotFoundRaised ==
    \E i \in 1..Len(dispatched) : dispatched[i].error.kind = "ToolNotFound"

\* C7: a ToolNotFound raised during tool dispatch is fatal to the run: the run
\* rejects with that error carrying the requested name, the failing call and
\* the calls after it in the turn get no telemetry entry and no tool message,
\* and from then on the run issues no model call, dispatches nothing and
\* returns nothing.
C7_ToolNotFoundIsFatal ==
    /\ [](\A i \in 1..Len(dispatched) :
            dispatched[i].error.kind = "ToolNotFound" =>
               /\ i = Len(dispatched)
               /\ pc = "failed"
               /\ runError = Err("ToolNotFound", dispatched[i].name)
               /\ ToolCallsRequested[toolIdx].name = dispatched[i].name
               /\ dispatched[i].forwardedTo = 0
               /\ Len(conversation) = llmCalls[Len(llmCalls)].sentLen + toolIdx
               /\ Len(toolCalls) = ToolMessagesBefore(Len(conversation) + 1))
    /\ [][pc = "failed" => UNCHANGED runVars]_vars

C7_Witness ==
    /\ ToolNotFoundRaised
    /\ pc = "failed"
    /\ Len(ToolCallsRequested) = 2
    /\ toolIdx = 1
    /\ clients # << >>

(***************************************************************************)
(* Properties of the registry.                                             *)
(***************************************************************************)
\* the names of a catalog, in order
ToolNames(tools) == [i \in 1..Len(tools) |-> tools[i].name]

\* C8: with no provider registered getTools returns exactly the two built-ins
\* task_complete and ask_question, each owned by the interaction-server
\* pseudo-client.
C8_TwoDefaultTools ==
    (lastOp.op = "getTools" /\ lastOp.error = NoError /\ lastOp.queried = {}) =>
       /\ ToolNames(lastOp.tools) = <<"task_complete", "ask_question">>
       /\ \A i \in 1..Len(lastOp.tools) : lastOp.tools[i].clientName = INTERACTION_SERVER

\* process p is the client the provider map holds under its name
Registered(p) == ObjectGet(clients, procs[p].name) = p

\* process p was stored in the provider map and another register replaced it
Replaced(p) == procs[p].status = "open" /\ ~Registered(p)

\* the entries of a catalog owned by client `name`
ToolsUnder(tools, name) == SelectSeq(tools, LAMBDA t : t.clientName = name)

\* the catalog of process q tagged with client `name`
TaggedCatalog(q, name) ==
    [k \in 1..Len(CatalogOf(procs[q].command)) |->
        [clientName |-> name, name |-> CatalogOf(procs[q].command)[k]]]

\* C9: register under a name already in the map is last-write-wins: the
\* register that succeeds holds the name, the map keeps a single entry for it,
\* getTools lists under that name only the tools of the provider that holds
\* it, callTool forwards only to providers the map holds, and a replaced
\* provider is neither queried nor called again.
C9_LastWriteWins ==
    /\ [](/\ \A p \in 1..Len(procs) :
               Replaced(p) =>
                  /\ ObjectGet(clients, procs[p].name) # 0
                  /\ Cardinality({i \in 1..Len(clients) :
                                     clients[i].name = procs[p].name}) = 1
                  /\ p \notin lastOp.queried
                  /\ lastOp.forwardedTo # p
                  /\ (lastOp.op = "getTools" /\ lastOp.error = NoError) =>
                        ToolsUnder(lastOp.tools, procs[p].name)
                           = TaggedCatalog(ObjectGet(clients, procs[p].name),
                                           procs[p].name)
          /\ lastOp.forwardedTo # 0 => Registered(lastOp.forwardedTo))
    /\ [][\A p \in 1..Len(procs) :
            (procs[p].status = "connecting" /\ procs'[p].status = "open") =>
               ObjectGet(clients', procs[p].name) = p]_vars

C9_Witness ==
    \E p \in 1..Len(procs) :
       /\ Replaced(p)
       /\ lastOp.op = "callTool"
       /\ lastOp.forwardedTo = ObjectGet(clients, procs[p].name)
       /\ procs[lastOp.forwardedTo].command # procs[p].command

\* C10: register with a transport other than "stdio" fails with
\* UnsupportedTransport and spawns nothing; a register that fails (unsupported
\* transport, or the provider does not connect) leaves the provider map as it
\* was, and getTools answers as before.
C10_FailedRegisterChangesNothing ==
    /\ [](/\ \A p \in 1..Len(procs) : procs[p].transport = "stdio"
          /\ (lastOp.op = "register" /\ lastOp.transport # "stdio") =>
                lastOp.error = Err("UnsupportedTransport", lastOp.transport)
          /\ \A i \in 1..Len(clients) : procs[clients[i].client].status = "open")
    /\ [][(/\ lastOp' # lastOp
           /\ lastOp'.op = "register"
           /\ lastOp'.error # NoError) =>
             /\ clients' = clients
             /\ GetToolsValue(clients', procs') = GetToolsValue(clients, procs)
             /\ FailingClients(clients', procs') = FailingClients(clients, procs)]_vars

C10_Witness ==
    /\ lastOp.op = "register"
    /\ lastOp.error.kind = "ConnectFailed"
    /\ ObjectGet(clients, lastOp.name) # 0

(***************************************************************************)
(* Properties of RAG.chunkText.                                            *)
(***************************************************************************)
\* the size of the call is a positive whole number
WholeSize == IsFinite(chunkCall.size) /\ chunkCall.size.twice > 0
             /\ chunkCall.size.twice % 2 = 0

\* the size of the call is positive and finite
ValidSize == IsFinite(chunkCall.size) /\ chunkCall.size.twice > 0

\* the overlap the call works with
CallOverlap == EffectiveOverlap(chunkCall.size, chunkCall.overlap)

\* a is a suffix of b
IsSuffix(a, b) == Len(a) <= Len(b) /\ SubSeq(b, Len(b) - Len(a) + 1, Len(b)) = a

\* a is a prefix of b
IsPrefix(a, b) == Len(a) <= Len(b) /\ SubSeq(b, 1, Len(a)) = a

RECURSIVE Rebuilds(_, _, _, _)
\* chunks[i..], each without some overlap prefix (at most overlap characters
\* copied from the tail of the chunk before it), concatenate to rest
Rebuilds(chunks, i, rest, overlap) ==
    IF i > Len(chunks) THEN rest = << >>
    ELSE \E l \in 0..(IF i = 1 THEN 0 ELSE Min(overlap, Len(chunks[i]))) :
            LET portion == SliceFrom(chunks[i], l)
            IN /\ i = 1 \/ IsSuffix(Slice(chunks[i], 0, l), chunks[i - 1])
               /\ IsPrefix(portion, rest)
               /\ Rebuilds(chunks, i + 1, SliceFrom(rest, Len(portion)), overlap)

\* C11: for a non-empty text and a positive whole chunk size, the chunks
\* without their overlap prefixes concatenate, in order, to the text.
C11_Reconstructs ==
    (chunkCall.called /\ chunkCall.text # << >> /\ WholeSize) =>
        Rebuilds(chunkCall.chunks, 1, chunkCall.text, CallOverlap)

\* C12: for any text and any positive finite chunk size, no chunk is longer
\* than the size.
C12_ChunkWithinSize ==
    (chunkCall.called /\ ValidSize) =>
        \A i \in 1..Len(chunkCall.chunks) :
           2 * Len(chunkCall.chunks[i]) <= chunkCall.size.twice

\* for a positive whole chunk size, no chunk is longer than the size
ChunkWithinWholeSize ==
    (chunkCall.called /\ WholeSize) =>
        \A i \in 1..Len(chunkCall.chunks) :
           2 * Len(chunkCall.chunks[i]) <= chunkCall.size.twice

\* C13: with an overlap > 0 and more than one chunk, every chunk after the
\* first begins with a non-empty suffix of the chunk before it, of at most
\* overlap characters.
C13_ChunksOverlap ==
    (chunkCall.called /\ WholeSize /\ CallOverlap > 0 /\ Len(chunkCall.chunks) > 1) =>
        \A i \in 2..Len(chunkCall.chunks) :
           \E l \in 1..Min(CallOverlap, Len(chunkCall.chunks[i])) :
              IsSuffix(Slice(chunkCall.chunks[i], 0, l), chunkCall.chunks[i - 1])

\* C14: a size that is <= 0 or not finite gives the whole text as one chunk,
\* whatever the overlap; so does a text no longer than a valid size.
C14_WholeTextAsOneChunk ==
    chunkCall.called =>
        /\ ~ValidSize => chunkCall.chunks = << chunkCall.text >>
        /\ (ValidSize /\ 2 * Len(chunkCall.text) <= chunkCall.size.twice) =>
              chunkCall.chunks = << chunkCall.text >>

C14_Witness ==
    /\ chunkCall.called
    /\ chunkCall.size = Finite(0)
    /\ chunkCall.overlap = Finite(2)
    /\ Len(chunkCall.text) = 3
    /\ chunkCall.chunks = << chunkCall.text >>

(***************************************************************************)
(* Properties of telemetry and of the order of a run's steps.              *)
(***************************************************************************)
\* C15: the requestMessages of every model-call record is the message list
\* that was sent at that call, in every later state of the run.
C15_RequestMessagesFrozen ==
    \A i \in 1..Len(llmCalls) :
       RequestMessages(i) = SubSeq(conversation, 1, llmCalls[i].sentLen)

\* the position of the assistant message of the current turn
LastAssistant == CHOOSE j \in AssistantPositions : \A k \in AssistantPositions : k <= j

\* while the for loop runs, passes 1..toolIdx-1 have returned: their telemetry
\* entries and tool-role messages are appended, in the order of the request,
\* and nothing of a later pass is
PassesDone ==
    pc = "tools" =>
       LET requested == ToolCallsRequested
           j == LastAssistant
       IN /\ toolIdx \in 1..Len(requested)
          /\ Len(conversation) = j + toolIdx - 1
          /\ conversation[j].tool_calls = requested
          /\ Len(toolCalls) >= toolIdx - 1
          /\ \A k \in 1..(toolIdx - 1) :
                /\ conversation[j + k].role = "tool"
                /\ conversation[j + k].tool_call_id = requested[k].id
                /\ toolCalls[Len(toolCalls) - (toolIdx - 1) + k].toolCallId = requested[k].id

\* C16: the tool calls of a turn run one at a time in the order of the
\* request: a step dispatches at most one tool call, the one at toolIdx, and
\* only when all earlier calls of the turn have returned and have their
\* telemetry entry and tool-role message appended.
C16_ToolCallsSequential ==
    /\ []PassesDone
    /\ [][(dispatched' # dispatched \/ toolCalls' # toolCalls) =>
            /\ pc = "tools"
            /\ Len(dispatched') <= Len(dispatched) + 1
            /\ Len(toolCalls') <= Len(toolCalls) + 1
            /\ dispatched' # dispatched =>
                  /\ SubSeq(dispatched', 1, Len(dispatched)) = dispatched
                  /\ dispatched'[Len(dispatched')].id = ToolCallsRequested[toolIdx].id
            /\ toolCalls' # toolCalls =>
                  /\ SubSeq(toolCalls', 1, Len(toolCalls)) = toolCalls
                  /\ toolCalls'[Len(toolCalls')].toolCallId = ToolCallsRequested[toolIdx].id
                  /\ Len(conversation') = Len(conversation) + 1
                  /\ conversation'[Len(conversation')].role = "tool"
                  /\ conversation'[Len(conversation')].tool_call_id =
                        ToolCallsRequested[toolIdx].id
                  /\ toolIdx' = toolIdx + 1]_vars

C16_Witness ==
    /\ pc = "tools"
    /\ toolIdx = 2
    /\ Len(dispatched) >= 1
    /\ dispatched[Len(dispatched)].id = ToolCallsRequested[1].id
    /\ ToolCallsRequested[2].name = "hello-world"
    /\ interactionCount = 2

\* C17: a model call is issued only when the turn before it is over: every
\* tool call that turn requested has returned, and the list sent is the list
\* sent the turn before, then that turn's assistant message, then the outputs
\* of its tool calls in order.
C17_TurnsSequential ==
    [][(llmCalls' # llmCalls /\ llmCalls # << >>) =>
         LET prev == llmCalls[Len(llmCalls)]
             requested == prev.responseMessage.tool_calls
             sent == SubSeq(conversation', 1, llmCalls'[Len(llmCalls')].sentLen)
         IN /\ Len(llmCalls') = Len(llmCalls) + 1
            /\ sent = conversation
            /\ Len(sent) = prev.sentLen + 1 + Len(requested)
            /\ sent[prev.sentLen + 1] = prev.responseMessage
            /\ \A k \in 1..Len(requested) :
                  /\ sent[prev.sentLen + 1 + k].role = "tool"
                  /\ sent[prev.sentLen + 1 + k].tool_call_id = requested[k].id
                  /\ toolCalls[Len(toolCalls) - Len(requested) + k].toolCallId =
                        requested[k].id]_vars

C17_Witness ==
    /\ Len(llmCalls) = 2
    /\ Len(llmCalls[1].responseMessage.tool_calls) = 2
    /\ llmCalls[2].sentLen = llmCalls[1].sentLen + 3

\* C18: every tool-role message of the conversation carries a tool_call id
\* of the tool-call list of the most recent assistant message before it.
C18_ToolMessageAnswersRequest ==
    \A k \in 1..Len(conversation) :
       conversation[k].role = "tool" =>
          \E j \in AssistantPositions :
             /\ j < k
             /\ \A a \in AssistantPositions : a < k => a <= j
             /\ \E i \in 1..Len(conversation[j].tool_calls) :
                   conversation[j].tool_calls[i].id = conversation[k].tool_call_id

C18_Witness ==
    /\ Len(llmCalls) = 2
    /\ conversation[Len(conversation)].role = "tool"
    /\ conversation[Len(conversation)].tool_call_id =
          llmCalls[2].responseMessage.tool_calls[1].id

\* conv begins with the list the loop starts from: baseMessages, with the
\* retrieved context (when there is one) put in as one more message
StartsFromBaseMessages(conv) ==
    LET n == Len(baseMessages)
    IN IF RagContext = "" THEN IsPrefix(baseMessages, conv)
       ELSE /\ Len(conv) >= n + 1
            /\ \E k \in 1..(n + 1) :
                  /\ conv[k] = RagMessage(RagContext)
                  /\ SubSeq(conv, 1, k - 1) = SubSeq(baseMessages, 1, k - 1)
                  /\ SubSeq(conv, k + 1, n + 1) = SubSeq(baseMessages, k, n)

\* C19: the conversation only grows at its end: every step leaves the
\* messages it had in place, and from the start of the loop to the return the
\* conversation begins with baseMessages plus the injected retrieval message.
C19_ConversationAppendOnly ==
    /\ [](pc \in {"loop", "tools", "done"} => StartsFromBaseMessages(conversation))
    /\ [][IsPrefix(conversation, conversation')]_vars

C19_Witness ==
    /\ pc = "done"
    /\ RagContext # ""
    /\ baseMessages[1].role = "system"
    /\ Len(llmCalls) = 2
    /\ conversation[Len(conversation)].role = "tool"

(***************************************************************************)
(* Properties of streaming.                                                *)
(***************************************************************************)
\* the ids of the tool calls an assistant message of the conversation requests
RequestedIds ==
    UNION {{conversation[j].tool_calls[i].id : i \in 1..Len(conversation[j].tool_calls)} :
              j \in AssistantPositions}

\* C20: when the stream shows tool-call data, one non-streaming request is
\* made for the same turn with the same messages and tool declarations; the
\* tool calls that run are those of its response, never the stream's
\* fragment; the turn has one telemetry entry and one assistant message.
C20_StreamFallsBackOnce ==
    /\ [](/\ pc = "fallback" =>
                /\ Len(requests) = 1
                /\ requests[1].stream
                /\ Len(llmCalls) = interactionCount - 1
          /\ pc # "fallback" =>
                /\ Len(llmCalls) = interactionCount
                /\ Len(requests) <= 2
          /\ Cardinality(AssistantPositions) = Len(llmCalls)
          /\ pc = "tools" =>
                /\ Len(requests) = 2
                /\ requests[1].stream
                /\ ~requests[2].stream
          /\ PartialToolCallId \notin RequestedIds
          /\ \A i \in 1..Len(toolCalls) : toolCalls[i].toolCallId \in RequestedIds
          /\ \A i \in 1..Len(dispatched) : dispatched[i].id \in RequestedIds)
    /\ [][pc = "fallback" =>
            /\ requests' = Append(requests, [requests[1] EXCEPT !.stream = FALSE])
            /\ Len(llmCalls') = Len(llmCalls) + 1
            /\ Len(conversation') = Len(conversation) + 1
            /\ conversation'[Len(conversation')].role = "assistant"
            /\ llmCalls'[Len(llmCalls')].responseMessage \in
                  ModelResponses(interactionCount, Len(toolCalls))
            /\ conversation'[Len(conversation')] =
                  llmCalls'[Len(llmCalls')].responseMessage
            /\ interactionCount' = interactionCount]_vars

C20_Witness ==
    /\ pc = "tools"
    /\ Len(requests) = 2
    /\ streamed = << "The " >>
    /\ toolIdx = 2
    /\ Len(dispatched) = 1

RECURSIVE Concat(_)
\* the fragments joined in their order, as a listener adding each to a string
Concat(fragments) ==
    IF fragments = << >> THEN "" ELSE Head(fragments) \o Concat(Tail(fragments))

\* the iteration's stream was read to its end and showed no tool-call data
StreamCompleted ==
    /\ onStreamAnswer
    /\ Len(requests) = 1
    /\ requests[1].stream
    /\ pc # "fallback"

\* the string content of a message (null content is no text)
TextOf(message) == IF message.content = "<null>" THEN "" ELSE message.content

C22_StreamedIsTranscript ==
    (onStreamAnswer /\ requests # << >> /\ pc # "fallback") =>
        Concat(streamed) = TextOf(llmCalls[Len(llmCalls)].responseMessage)

\* the argument strings that carry no arguments: undefined and ""
BlankArguments == {ArgsUndefined, ""}

\* C23: a callTool whose argument string is absent or blank never fails on
\* its arguments: registry.callTool takes them as the empty object and goes
\* on to resolve the tool, as the loop does.
C23_BlankArgumentsAccepted ==
    (lastOp.op = "callTool" /\ lastOp.arguments \in BlankArguments) =>
        lastOp.error.kind # "SyntaxError"

\* the function names of a catalog, in its order
FunctionNames(tools) == [i \in 1..Len(tools) |-> tools[i].name]

\* no name occurs twice in the sequence
Distinct(names) ==
    \A i, j \in 1..Len(names) : names[i] = names[j] => i = j

\* C25: the catalog getTools returns holds every function name once, a
\* provider's tool named like a built-in included.
C25_CatalogNamesDistinct ==
    (lastOp.op = "getTools" /\ lastOp.error = NoError) =>
        Distinct(FunctionNames(lastOp.tools))

\* the names under which providers are registered
RegisteredNames(obj) == {obj[i].name : i \in 1..Len(obj)}

\* C26: getTools lists the built-ins first, then the providers in the order
\* they were registered: the tools of a provider registered under a new name
\* are the last of the catalog, whatever the name looks like.
C26_RegistrationOrder ==
    [][\A name \in RegisteredNames(clients') \ RegisteredNames(clients) :
          LET tools == GetToolsValue(clients', procs')
          IN /\ SubSeq(tools, 1, Len(defaultTools)) = defaultTools
             /\ tools[Len(tools)].clientName = name]_vars

\* C27: when the listTools() of a registered provider rejects, getTools
\* rejects with the error of a provider that failed and returns no tools,
\* also when other providers answered; it resolves with the whole catalog
\* only when every provider answered.
C27_GetToolsAllOrNothing ==
    /\ [](lastOp.op = "getTools" =>
            /\ lastOp.error # NoError => lastOp.tools = << >>
            /\ lastOp.error = NoError => Len(lastOp.tools) >= Len(defaultTools))
    /\ [][(lastOp'.op = "getTools" /\ lastOp' # lastOp) =>
            IF FailingClients(clients, procs) # {}
            THEN /\ lastOp'.error.kind = "ListToolsFailed"
                 /\ \E i \in FailingClients(clients, procs) :
                        lastOp'.error.detail = clients[i].name
                 /\ lastOp'.tools = << >>
            ELSE /\ lastOp'.error = NoError
                 /\ lastOp'.tools = GetToolsValue(clients, procs)]_vars

C27_Witness ==
    /\ lastOp.op = "getTools"
    /\ lastOp.error.kind = "ListToolsFailed"
    /\ lastOp.tools = << >>
    /\ Len(clients) = 2
    /\ Cardinality(FailingClients(clients, procs)) = 1

\* the members of a sequence
Range(seq) == {seq[i] : i \in 1..Len(seq)}

\* the function names the registered providers' listTools() answer now,
\* with the built-in's
ExposedNow ==
    {"task_complete"} \cup
    UNION {Range(procs[clients[i].client].catalog) : i \in 1..Len(clients)}

\* this step is a registry.callTool made by the run
RunCallsTool == Len(dispatched') = Len(dispatched) + 1

LateToolForwarded ==
    \E i \in 1..Len(dispatched) :
        /\ dispatched[i].error = NoError
        /\ dispatched[i].forwardedTo # 0
        /\ dispatched[i].name \notin Range(availableTools)

\* the entry of the provider map that owns the name now: the first whose
\* provider exposes it (0 if none)
OwnerNow(name) ==
    IF \E i \in 1..Len(clients) : name \in Range(procs[clients[i].client].catalog)
    THEN CHOOSE i \in 1..Len(clients) :
            /\ name \in Range(procs[clients[i].client].catalog)
            /\ \A j \in 1..(i - 1) : name \notin Range(procs[clients[j].client].catalog)
    ELSE 0

\* C28: when the listTools() of any registered provider rejects at the time
\* of a call, registry.callTool fails and forwards nothing, also when the
\* provider that owns the tool answers; in a run the error ends the run.
C28_OtherProviderFailsCall ==
    [][(RunCallsTool /\ FailingClients(clients, procs) # {}) =>
          LET call == dispatched'[Len(dispatched')]
          IN /\ call.error.kind = "ListToolsFailed"
             /\ \E i \in FailingClients(clients, procs) :
                    call.error.detail = clients[i].name
             /\ call.forwardedTo = 0
             /\ pc' = "failed"
             /\ runError' = call.error
             /\ toolCalls' = toolCalls
             /\ conversation' = conversation]_vars

C28_Witness ==
    /\ pc = "failed"
    /\ runError.kind = "ListToolsFailed"
    /\ dispatched # << >>
    /\ dispatched[Len(dispatched)].error = runError
    /\ dispatched[Len(dispatched)].forwardedTo = 0
    /\ OwnerNow(dispatched[Len(dispatched)].name) # 0
    /\ OwnerNow(dispatched[Len(dispatched)].name) \notin FailingClients(clients, procs)
    /\ clients[OwnerNow(dispatched[Len(dispatched)].name)].name # runError.detail

\* C29: the run fetches the catalog once, before its first model call, and
\* every request to the model carries the declarations built from that
\* fetch, whatever the providers expose and whoever is registered by then.
C29_ToolsFetchedOnce ==
    /\ [](/\ pc = "idle" => llmCalls = << >>
          /\ \A i \in 1..Len(llmCalls) : llmCalls[i].sentTools = availableTools
          /\ \A k \in 1..Len(requests) : requests[k].tools = availableTools)
    /\ [][IF pc = "idle"
          THEN pc' = "loop" =>
                  /\ FailingClients(clients, procs) = {}
                  /\ Range(availableTools') = ExposedNow
          ELSE availableTools' = availableTools]_vars

C29_Witness ==
    /\ Len(llmCalls) = 2
    /\ Len(clients) = 2
    /\ availableTools = <<"task_complete", "hello-world">>
    /\ Range(availableTools) # ExposedNow
    /\ requests[1].tools = availableTools
    /\ llmCalls[1].sentTools = llmCalls[2].sentTools

\* the function names a response requests, in its order
RequestedNames(responseMessage) ==
    [k \in 1..Len(responseMessage.tool_calls) |-> responseMessage.tool_calls[k].name]

\* the acknowledgement counter has reached the value that stops the loop
Acknowledged == taskCompleteAck >= AckThreshold

\* C30: the counter of acknowledgements is looked at only by the while
\* condition: once the second task_complete of a run is acknowledged in the
\* middle of a turn, the tool calls left in the turn are still executed,
\* recorded and answered in the conversation, and no model call follows;
\* a turn that requests task_complete twice ends the run after its one
\* model call.
C30_AckCheckedAtLoopTop ==
    /\ []((Acknowledged /\ pc \in {"loop", "done"}) =>
             /\ Len(conversation) = LastAssistant + Len(ToolCallsRequested)
             /\ \A k \in 1..Len(ToolCallsRequested) :
                   /\ conversation[LastAssistant + k].role = "tool"
                   /\ conversation[LastAssistant + k].tool_call_id =
                         ToolCallsRequested[k].id
                   /\ toolCalls[Len(toolCalls) - Len(ToolCallsRequested) + k].toolCallId =
                         ToolCallsRequested[k].id)
    /\ []((Len(llmCalls) >= 1 /\ pc = "done"
           /\ RequestedNames(llmCalls[1].responseMessage) =
                 <<"task_complete", "task_complete">>) =>
             /\ Len(llmCalls) = 1
             /\ interactionCount = 1
             /\ Len(toolCalls) = 2)
    /\ [][(Acknowledged /\ pc = "tools" /\ runVars' # runVars) =>
             /\ llmCalls' = llmCalls
             /\ pc' \in {"tools", "loop", "failed"}
             /\ pc' # "failed" =>
                   /\ toolIdx' = toolIdx + 1
                   /\ Len(toolCalls') = Len(toolCalls) + 1
                   /\ toolCalls'[Len(toolCalls')].toolCallId =
                         ToolCallsRequested[toolIdx].id
                   /\ conversation' =
                         Append(conversation,
                                ToolOutputMessage(ToolCallsRequested[toolIdx].id,
                                                  toolCalls'[Len(toolCalls')].result))]_vars
    /\ [][(Acknowledged /\ pc = "loop" /\ runVars' # runVars) =>
             (pc' = "done" /\ llmCalls' = llmCalls)]_vars

C30_Witness ==
    /\ pc = "done"
    /\ Len(llmCalls) = 2
    /\ interactionCount < maxInteractions
    /\ RequestedNames(llmCalls[1].responseMessage) = <<"task_complete">>
    /\ RequestedNames(llmCalls[2].responseMessage) = <<"task_complete", "hello-world">>
    /\ taskCompleteAck = AckThreshold
    /\ Len(toolCalls) = 3
    /\ toolCalls[3].toolName = "hello-world"
    /\ toolCalls[3].result = "Hello World!"
    /\ conversation[Len(conversation)].tool_call_id = CallId(2, 2)

\* the telemetry entries of the ask_question calls
Clarifications == {i \in 1..Len(toolCalls) : toolCalls[i].toolName = "ask_question"}

\* the tool-role messages that answer tool call id
AnswersTo(id) ==
    {j \in 1..Len(conversation) :
        conversation[j].role = "tool" /\ conversation[j].tool_call_id = id}

\* C31: in plannerAgent's run, an ask_question request without a
\* requestInputFromUser callback fails the run with MissingInputCallback and
\* no tool message is appended for the call; with a callback, the callback
\* is called once with the question, the registry is not called, and the
\* text the callback returned is the result recorded and appended.
C31_ClarificationSignal ==
    /\ [](variant = "plannerAgent" =>
            /\ \A i \in 1..Len(dispatched) : dispatched[i].name # "ask_question"
            /\ Len(asked) = Cardinality(Clarifications)
            /\ \A i \in 1..Len(asked) : asked[i] = "which?"
            /\ asked # << >> => hasInputCallback
            /\ \A i \in Clarifications :
                  /\ toolCalls[i].result = UserInput
                  /\ \E j \in AnswersTo(toolCalls[i].toolCallId) :
                        conversation[j].content = JSONStringify(UserInput)
            /\ runError.kind = "MissingInputCallback" =>
                  /\ pc = "failed"
                  /\ ~hasInputCallback
                  /\ ToolCallsRequested[toolIdx].name = "ask_question"
                  /\ AnswersTo(ToolCallsRequested[toolIdx].id) = {}
                  /\ Len(conversation) = LastAssistant + toolIdx - 1)
    /\ [][(/\ pc = "tools"
           /\ variant = "plannerAgent"
           /\ runVars' # runVars
           /\ ToolCallsRequested[toolIdx].name = "ask_question") =>
             IF hasInputCallback
             THEN /\ asked' = Append(asked, "which?")
                  /\ dispatched' = dispatched
                  /\ pc' # "failed"
                  /\ toolCalls'[Len(toolCalls')].result = UserInput
                  /\ conversation' =
                        Append(conversation,
                               ToolOutputMessage(ToolCallsRequested[toolIdx].id, UserInput))
             ELSE /\ pc' = "failed"
                  /\ runError' = Err("MissingInputCallback", "ask_question")
                  /\ asked' = asked
                  /\ dispatched' = dispatched
                  /\ toolCalls' = toolCalls
                  /\ conversation' = conversation]_vars

C31_Witness ==
    /\ variant = "plannerAgent"
    /\ hasInputCallback
    /\ asked = << "which?" >>
    /\ dispatched = << >>
    /\ Len(toolCalls) = 1
    /\ toolCalls[1].result = UserInput
    /\ conversation[Len(conversation)].role = "tool"
    /\ conversation[Len(conversation)].content = JSONStringify(UserInput)

\* a run without the callback failed on ask_question after a tool call that
\* was answered
MissingCallbackFails ==
    /\ pc = "failed"
    /\ runError = Err("MissingInputCallback", "ask_question")
    /\ toolIdx = 2
    /\ Len(toolCalls) = 1
    /\ conversation[Len(conversation)].role = "tool"

(***************************************************************************)
(* Properties of the retrieval pre-step.                                   *)
(***************************************************************************)
\* the position of the first system message of the caller's list, 0 if none
FirstSystemOfCaller ==
    IF \E i \in 1..Len(baseMessages) : baseMessages[i].role = "system"
    THEN CHOOSE i \in 1..Len(baseMessages) :
            /\ baseMessages[i].role = "system"
            /\ \A j \in 1..(i - 1) : baseMessages[j].role # "system"
    ELSE 0

\* the run got past its set-up
LoopEntered == pc \in {"loop", "tools", "done"}

\* the retrieval was asked for and found documents
RetrievalFound == ragQuery # "" /\ ~retrieval.throws /\ retrieval.results # << >>

\* the retrieval was asked for and failed
RetrievalFailed == ragQuery # "" /\ retrieval.throws

\* C32: when the retrieval query finds documents, the list the loop starts
\* from is the caller's list with one more system message, holding the
\* context, right after the caller's first system message, or in front when
\* there is none; the caller's messages keep their order and content, and
\* the caller's baseMessages array is left as it was.
C32_ContextAfterFirstSystem ==
    /\ []((LoopEntered /\ RetrievalFound) =>
             LET n == Len(baseMessages)
                 at == FirstSystemOfCaller
             IN /\ Len(conversation) >= n + 1
                /\ conversation[at + 1].role = "system"
                /\ conversation[at + 1].content = performRAGRetrieval(retrieval)
                /\ conversation[at + 1].content # ""
                /\ \A i \in 1..at : conversation[i] = baseMessages[i]
                /\ \A i \in (at + 1)..n : conversation[i + 1] = baseMessages[i]
                /\ Cardinality({j \in 1..(n + 1) :
                                   \A i \in 1..n : conversation[j] # baseMessages[i]}) = 1)
    /\ [][baseMessages' = baseMessages]_vars

C32_Witness ==
    /\ pc = "done"
    /\ baseMessages = <<UserMessage, SystemMessage, UserMessage, SystemMessage>>
    /\ retrieval = RetrievalReturns(<< Document, OtherDocument >>)
    /\ Len(conversation) >= 6
    /\ conversation[3].role = "system"
    /\ conversation[3].content =
          "\n--- RELEVANT CONTEXT FROM KNOWLEDGE BASE ---\n[Document 1 - notes.md]\nremember\n\n[Document 2 - todo.md]\nbuy milk\n\n--- END CONTEXT ---\n\nBased on the above context, please proceed with the user's request."
    /\ conversation[5] = SystemMessage

\* C33: a failure of the retrieval does not fail the run and injects
\* nothing: the loop starts from the caller's baseMessages as they are, as
\* it does without a retrieval query.
C33_RetrievalFailureSwallowed ==
    /\ [](RetrievalFailed =>
             /\ runError.kind # "RetrievalFailed"
             /\ LoopEntered =>
                   /\ IsPrefix(baseMessages, conversation)
                   /\ Len(conversation) > Len(baseMessages) =>
                         conversation[Len(baseMessages) + 1].role = "assistant"
                   /\ llmCalls # << >> => llmCalls[1].sentLen = Len(baseMessages))
    /\ [][(RetrievalFailed /\ pc = "idle" /\ pc' # "idle") =>
             /\ pc' = "loop"
             /\ conversation' = baseMessages
             /\ runError' = NoError]_vars

C33_Witness ==
    /\ RetrievalFailed
    /\ pc = "done"
    /\ baseMessages = <<SystemMessage, UserMessage>>
    /\ Len(llmCalls) = 2
    /\ llmCalls[1].sentLen = 2
    /\ SubSeq(conversation, 1, 3) =
          <<SystemMessage, UserMessage, llmCalls[1].responseMessage>>

\* C39: for a non-empty text and a positive finite size, chunkText returns
\* at least one chunk and none of its chunks is the empty string, also for
\* a text longer than the size made of separator characters only.
C39_ChunksNonEmpty ==
    (chunkCall.called /\ chunkCall.text # << >> /\ ValidSize) =>
        /\ chunkCall.chunks # << >>
        /\ chunkCall.chunks # LoopsForever
        /\ \A i \in 1..Len(chunkCall.chunks) : chunkCall.chunks[i] # << >>

\* the same for whole sizes: what is left when fractional sizes are set aside
SomeChunkForWholeSize ==
    (chunkCall.called /\ chunkCall.text # << >> /\ WholeSize) =>
        /\ chunkCall.chunks # << >>
        /\ \A i \in 1..Len(chunkCall.chunks) : chunkCall.chunks[i] # << >>


(***************************************************************************)
(* The last message of the returned conversation.                          *)
(***************************************************************************)
\* the last message of the conversation and the last response of the model
LastMessage == conversation[Len(conversation)]

LastResponse == llmCalls[Len(llmCalls)].responseMessage

\* C38: with maxInteractions >= 1 the returned conversation ends with an
\* assistant message exactly when the run ended on a response without tool
\* calls; a run that ended at the ceiling of maxInteractions or on the second
\* completion acknowledgement returns a conversation whose last message has
\* the tool role.
C38_LastMessageRole ==
    /\ []((pc = "done" /\ maxInteractions >= 1) =>
             /\ llmCalls # << >>
             /\ LastMessage.role = "assistant"
                   <=> Len(LastResponse.tool_calls) = 0
             /\ LastMessage.role \in {"assistant", "tool"})
    /\ [][(pc = "loop" /\ pc' = "done") =>
             IF llmCalls' # llmCalls
             THEN /\ Len(LastResponse'.tool_calls) = 0
                  /\ LastMessage'.role = "assistant"
                  /\ LastMessage' = LastResponse'
             ELSE /\ interactionCount >= maxInteractions \/ taskCompleteAck >= AckThreshold
                  /\ Len(LastResponse.tool_calls) > 0
                  /\ conversation' = conversation
                  /\ LastMessage.role = "tool"]_vars

C38_Witness ==
    /\ pc = "done"
    /\ variant = "plannerAgent"
    /\ LastMessage.role = "tool"
    /\ taskCompleteAck >= AckThreshold
    /\ Len(llmCalls) < maxInteractions
    /\ LastMessage.tool_call_id = LastResponse.tool_calls[Len(LastResponse.tool_calls)].id

\* a run that stopped at the ceiling of maxInteractions, for comparison
EndedAtCeilingOnToolMessage ==
    /\ pc = "done"
    /\ taskCompleteAck < AckThreshold
    /\ Len(llmCalls) = maxInteractions
    /\ LastMessage.role = "tool"


(***************************************************************************)
(* Registrations in flight at the same time.                               *)
(***************************************************************************)
\* the connect of process p has not settled yet
InFlight(p) == procs[p].status = "connecting"

\* the connect of process p settles successfully in this step
ConnectsNow(p) == InFlight(p) /\ procs'[p].status = "open"

\* the processes registered under the name of p, p included
SameName(p) == {q \in 1..Len(procs) : procs[q].name = procs[p].name}

\* C36: with several register calls in flight, no successful registration is
\* lost (a connected provider registered under a name of its own is in the
\* map, and every connected provider's name is), a provider is in the map and
\* is queried or called only once its connection is established, and among
\* registrations sharing a name the map holds the one whose connection
\* completed last: each completion stores its client under the name and
\* nothing else changes the map.
C36_ConcurrentRegistrations ==
    /\ [](\A p \in 1..Len(procs) :
             /\ procs[p].status = "open" => ObjectGet(clients, procs[p].name) # 0
             /\ (procs[p].status = "open" /\ SameName(p) = {p}) => Registered(p)
             /\ procs[p].status # "open" =>
                   /\ ~Registered(p)
                   /\ p \notin Queried(clients)
                   /\ p \notin lastOp.queried
                   /\ lastOp.forwardedTo # p)
    /\ [][/\ \A p \in 1..Len(procs) :
               ConnectsNow(p) =>
                  /\ ObjectGet(clients', procs[p].name) = p
                  /\ \A i \in 1..Len(clients) :
                        clients[i].name # procs[p].name =>
                           ObjectGet(clients', clients[i].name) = clients[i].client
          /\ (\A p \in 1..Len(procs) : ~ConnectsNow(p)) => clients' = clients]_vars

\* two registrations under one name were in flight together and the one that
\* was called first completed last: it holds the name
C36_Witness ==
    /\ Len(procs) = 2
    /\ procs[1].name = procs[2].name
    /\ procs[1].status = "open"
    /\ procs[2].status = "open"
    /\ Registered(1)
    /\ procs[1].command # procs[2].command
    /\ lastOp.op = "getTools"
    /\ lastOp.queried = {1}

\* two registrations under names of their own are both in the map
BothRegistered ==
    /\ Len(procs) = 2
    /\ procs[1].name # procs[2].name
    /\ Registered(1)
    /\ Registered(2)


(***************************************************************************)
(* closeClient and cleanup.                                                *)
(***************************************************************************)
\* mutant: closing a client removes its name from the provider map
ClientsAfterCloseDeleted(obj, name) == SelectSeq(obj, LAMBDA entry : entry.name # name)

\* the provider map after closeClient(name): close() is awaited and the name
\* is left in this.clients
ClientsAfterClose(obj, name) == obj

\* getClientsNames(): Object.keys(this.clients)
GetClientsNamesValue(obj) == [i \in 1..Len(obj) |-> obj[i].name]

\* a provider process after its client was closed: the connection is gone
\* and its listTools() rejects from then on
ClosedProc(proc) == [proc EXCEPT !.status = "closed", !.listFails = TRUE]

\* closeClient(name); `rejects` tells whether client.close() rejects, in
\* which case the connection is left as it was
CloseClient(name, rejects) ==
    /\ pc = "app"
    /\ LET p == ObjectGet(clients, name)
       IN IF p = 0
          THEN /\ lastOp' = [IdleOp EXCEPT !.op = "closeClient", !.name = name,
                                !.error = Err("ClientNotRegistered", name)]
               /\ UNCHANGED <<clients, procs>>
          ELSE /\ procs' = IF rejects THEN procs
                           ELSE [procs EXCEPT ![p] = ClosedProc(procs[p])]
               /\ clients' = ClientsAfterClose(clients, name)
               /\ lastOp' = [IdleOp EXCEPT !.op = "closeClient", !.name = name,
                                !.error = IF rejects THEN Err("CloseFailed", name)
                                          ELSE NoError]
    /\ UNCHANGED runVars
    /\ UNCHANGED chunkVars

\* cleanup(): closeClient for every key of the map, gathered with
\* Promise.all; `rejecting` is the entry whose close() rejects (0: none does)
Cleanup(rejecting) ==
    /\ pc = "app"
    /\ rejecting \in 0..Len(clients)
    /\ procs' = [p \in 1..Len(procs) |->
                    IF p \in Queried(clients)
                       /\ (rejecting = 0 \/ clients[rejecting].client # p)
                    THEN ClosedProc(procs[p])
                    ELSE procs[p]]
    /\ clients' = clients
    /\ lastOp' = [IdleOp EXCEPT !.op = "cleanup",
                     !.error = IF rejecting = 0 THEN NoError
                               ELSE Err("CloseFailed", clients[rejecting].name)]
    /\ UNCHANGED runVars
    /\ UNCHANGED chunkVars

\* names closeClient is called with
CloseNames == ClientNames

NextClose ==
    \/ \E n \in ClientNames, c \in Commands : RegisterBegin("stdio", n, c)
    \/ \E p \in 1..MaxProcs : RegisterSettle(p)
    \/ \E n \in CloseNames, r \in BOOLEAN : CloseClient(n, r)
    \/ \E f \in 0..MaxProcs : Cleanup(f)
    \/ \E f \in 0..MaxProcs : GetTools(f)
    \/ \E f \in 0..MaxProcs : CallTool([name |-> "hello-world", arguments |-> ArgsAlice], f)

SpecClose == InitRegistry /\ [][NextClose]_vars

\* process p was connected at some time
EverConnected(p) == procs[p].status \in {"open", "closed"}

\* C37: closeClient(name) fails with ClientNotRegistered exactly when no
\* register under that name ever succeeded; closeClient and cleanup close
\* connections and leave the provider map as it was, so a closed provider is
\* still listed by getClientsNames, still queried by getTools and callTool,
\* and closing it again does not fail with ClientNotRegistered.
C37_CloseKeepsMap ==
    /\ [](/\ lastOp.op = "closeClient" =>
                /\ lastOp.error.kind = "ClientNotRegistered"
                      <=> ObjectGet(clients, lastOp.name) = 0
                /\ lastOp.error.kind = "ClientNotRegistered"
                      <=> ~\E p \in 1..Len(procs) :
                              procs[p].name = lastOp.name /\ EverConnected(p)
          /\ \A p \in 1..Len(procs) :
                procs[p].status = "closed" =>
                   /\ \E i \in 1..Len(clients) :
                         GetClientsNamesValue(clients)[i] = procs[p].name
                   /\ Registered(p) => p \in Queried(clients)
          /\ lastOp.op \in {"getTools", "callTool"} => lastOp.queried = Queried(clients))
    /\ [][/\ lastOp'.op \in {"closeClient", "cleanup"} =>
               /\ clients' = clients
               /\ GetClientsNamesValue(clients') = GetClientsNamesValue(clients)
          /\ \A p \in 1..Len(procs) :
                (procs[p].status = "closed" /\ Registered(p)
                   /\ lastOp'.op = "closeClient" /\ lastOp'.name = procs[p].name) =>
                      lastOp'.error.kind # "ClientNotRegistered"]_vars

\* a provider was closed and a later getTools still asked it for its tools
C37_Witness ==
    /\ lastOp.op = "getTools"
    /\ \E p \in 1..Len(procs) :
          /\ procs[p].status = "closed"
          /\ Registered(p)
          /\ p \in lastOp.queried
          /\ lastOp.error = Err("ListToolsFailed", procs[p].name)

\* closeClient on a closed provider's name, with a close() that rejects: the
\* failure is not ClientNotRegistered
ClosedAgain ==
    /\ lastOp.op = "closeClient"
    /\ lastOp.error.kind = "CloseFailed"
    /\ procs[ObjectGet(clients, lastOp.name)].status = "closed"


(***************************************************************************)
(* The RAG facade: memories.                                               *)
(***************************************************************************)
\* textSplitter.options of the configuration the model runs with
SplitterChunkSize == 2

SplitterOverlapPercentage == 0

\* this.chunkText(data, {chunkSize, chunkOverlapPercentage}): the overlap is
\* Math.floor(chunkSize * chunkOverlapPercentage / 100)
SplitterChunks(text) ==
    chunkText(text, Finite(2 * SplitterChunkSize),
              Finite(2 * ((SplitterChunkSize * SplitterOverlapPercentage) \div 100)))

\* the contents createMemory and updateMemory are called with
MemoryTexts == { <<"b">>, <<"a", " ", "b">>, <<"b", " ", "a", " ", "b">>,
                 <<" ", " ", " ">> }

\* a row of memory_chunks (its SERIAL id and its embedding left out);
\* 0 stands for NULL
ChunkRow(fileId, memoryId, index, content) ==
    [file_id |-> fileId, memory_id |-> memoryId, chunk_index |-> index,
     content |-> content]

\* the rows one insertChunksForFile / insertChunksForMemory call inserts:
\* one INSERT per chunk, chunk_index being the position in the array
RowsOf(fileId, memoryId, chunks) ==
    SetToBag({ChunkRow(fileId, memoryId, j - 1, chunks[j]) : j \in 1..Len(chunks)})

\* DELETE FROM memory_chunks WHERE memory_id = $1
ClearChunksForMemory(rows, memoryId) ==
    [r \in {x \in DOMAIN rows : x.memory_id # memoryId} |-> rows[r]]

\* DELETE FROM memory_chunks WHERE file_id = $1
ClearChunksForFile(rows, fileId) ==
    [r \in {x \in DOMAIN rows : x.file_id # fileId} |-> rows[r]]

\* the memory rows with id `memoryId`
MemoryRecords(memoryId) == {m \in store.memory : m.id = memoryId}

\* the position after pass i of the loop of indexMemoryById, or after an
\* earlier step when the loop has nothing to do
AfterIndexPass(i, n) == IF i < n THEN "index" ELSE "done"

\* createMemory(content) up to the loop of indexMemoryById: upsertMemory
\* inserts the memory row, the content is chunked and embedded
CreateMemoryStart(text) ==
    /\ memoryCall.pc = "done"
    /\ store.nextMemoryId <= MaxMemories
    /\ LET id == store.nextMemoryId
           chunks == SplitterChunks(text)
       IN /\ store' = [store EXCEPT !.memory = @ \cup {[id |-> id, text |-> text]},
                                    !.nextMemoryId = @ + 1]
          /\ memoryCall' = [op |-> "createMemory",
                            pc |-> AfterIndexPass(0, Len(chunks)),
                            id |-> id, text |-> text, chunks |-> chunks, i |-> 0,
                            returned |-> IF Len(chunks) = 0 THEN id ELSE 0]
    /\ UNCHANGED <<disk, syncs, chunkCall>>
    /\ UNCHANGED <<registryVars, runVars>>

\* updateMemory(id, content) up to clearChunksForMemory: null is returned
\* when there is no such memory
UpdateMemoryStart(id, text) ==
    /\ memoryCall.pc = "done"
    /\ memoryCall' = [op |-> "updateMemory",
                      pc |-> IF MemoryRecords(id) = {} THEN "done" ELSE "clear",
                      id |-> id, text |-> text, chunks |-> << >>, i |-> 0,
                      returned |-> 0]
    /\ UNCHANGED <<disk, store, syncs, chunkCall>>
    /\ UNCHANGED <<registryVars, runVars>>

\* updateMemory from clearChunksForMemory to the loop of indexMemoryById:
\* the old chunks are deleted, the row gets the new text, the content is
\* chunked and embedded
UpdateMemoryClear ==
    /\ memoryCall.pc = "clear"
    /\ LET chunks == SplitterChunks(memoryCall.text)
       IN /\ store' = [store EXCEPT
                         !.chunks = ClearChunksForMemory(@, memoryCall.id),
                         !.memory = {IF m.id = memoryCall.id
                                     THEN [m EXCEPT !.text = memoryCall.text]
                                     ELSE m : m \in @}]
          /\ memoryCall' = [memoryCall EXCEPT
                              !.pc = AfterIndexPass(0, Len(chunks)),
                              !.chunks = chunks,
                              !.returned = IF Len(chunks) = 0 THEN memoryCall.id ELSE 0]
    /\ UNCHANGED <<disk, syncs, chunkCall>>
    /\ UNCHANGED <<registryVars, runVars>>

\* one pass of `for (let i = 0; i < chunks.length; i++)` in indexMemoryById:
\* insertChunksForMemory(memoryId, chunks, embeddings) is awaited; after the
\* last pass the call resolves with the memory record
IndexMemoryPass ==
    /\ memoryCall.pc = "index"
    /\ store' = [store EXCEPT
                   !.chunks = @ (+) RowsOf(0, memoryCall.id, memoryCall.chunks)]
    /\ memoryCall' = [memoryCall EXCEPT
                        !.i = @ + 1,
                        !.pc = AfterIndexPass(memoryCall.i + 1, Len(memoryCall.chunks)),
                        !.returned = IF memoryCall.i + 1 < Len(memoryCall.chunks)
                                     THEN 0 ELSE memoryCall.id]
    /\ UNCHANGED <<disk, syncs, chunkCall>>
    /\ UNCHANGED <<registryVars, runVars>>

InitMemory == InitRegistry

NextMemory ==
    \/ \E text \in MemoryTexts : CreateMemoryStart(text)
    \/ \E id \in 1..(MaxMemories + 1), text \in MemoryTexts : UpdateMemoryStart(id, text)
    \/ UpdateMemoryClear
    \/ IndexMemoryPass

SpecMemory == InitMemory /\ [][NextMemory]_vars

\* the rows of memory_chunks that belong to memory `memoryId`
RowsOfMemory(memoryId) ==
    [r \in {x \in DOMAIN store.chunks : x.memory_id = memoryId} |-> store.chunks[r]]

\* a createMemory or updateMemory call that resolved with a memory record
MemoryCallCompleted ==
    /\ memoryCall.op \in {"createMemory", "updateMemory"}
    /\ memoryCall.pc = "done"
    /\ memoryCall.returned # 0

\* C34: after createMemory(text) or updateMemory(id, text) completed, the
\* store holds for the memory exactly one row per chunk of chunkText(text),
\* with the indices 0..n-1 and none of them twice, and no row of an earlier
\* content.
C34_OneRowPerChunk ==
    MemoryCallCompleted =>
       RowsOfMemory(memoryCall.id)
          = RowsOf(0, memoryCall.id, SplitterChunks(memoryCall.text))

\* the part of it that holds: the rows of a completed call carry the chunks
\* of the new content only, each chunk at its index, and the row of the
\* memory carries the new text
RowsAreChunksOfNewContent ==
    MemoryCallCompleted =>
       /\ BagToSet(RowsOfMemory(memoryCall.id))
             = BagToSet(RowsOf(0, memoryCall.id, SplitterChunks(memoryCall.text)))
       /\ \A r \in BagToSet(RowsOfMemory(memoryCall.id)) :
             CopiesIn(r, store.chunks) = Len(SplitterChunks(memoryCall.text))
       /\ MemoryRecords(memoryCall.id) = {[id |-> memoryCall.id, text |-> memoryCall.text]}


(***************************************************************************)
(* The RAG facade: syncFile on one path of the workspace directory.        *)
(***************************************************************************)
\* what the file holds after a change
FileTexts == { <<"b">>, <<"a", " ", "b">>, <<" ">> }

\* !text.trim()
IsBlank(text) == \A j \in 1..Len(text) : text[j] \in {" ", "\n"}

\* an invocation of syncFile at one of its awaits: the mtime it read, the
\* chunks it cut, the file id upsertFile selected or inserted, and the
\* positions of the chunks whose INSERT has not run yet
SyncTask(position, mtime, chunks, fileId, pending) ==
    [pc |-> position, mtime |-> mtime, chunks |-> chunks, fileId |-> fileId,
     pending |-> pending]

\* the invocations in flight at a position
TasksAt(position) == {t \in BagToSet(syncs.tasks) : t.pc = position}

\* invocation t moves on to t2
Moves(t, t2) ==
    syncs' = [syncs EXCEPT !.tasks = (@ (-) SetToBag({t})) (+) SetToBag({t2})]

\* invocation t returns
Returns(t) == syncs' = [syncs EXCEPT !.tasks = @ (-) SetToBag({t})]

\* invocation t rejects
Rejects(t, kind) ==
    syncs' = [syncs EXCEPT !.tasks = @ (-) SetToBag({t}),
                           !.rejected = @ \cup {kind}]

\* the file is written: new content, later mtime
FileChange(text) ==
    /\ disk.mtime < MaxVersions
    /\ disk' = [exists |-> TRUE, mtime |-> disk.mtime + 1, text |-> text]
    /\ UNCHANGED <<store, syncs, memoryCall, chunkCall>>
    /\ UNCHANGED <<registryVars, runVars>>

\* the file is removed from the directory
FileRemove ==
    /\ disk.exists
    /\ disk' = [disk EXCEPT !.exists = FALSE, !.text = << >>]
    /\ UNCHANGED <<store, syncs, memoryCall, chunkCall>>
    /\ UNCHANGED <<registryVars, runVars>>

\* syncFile(filePath) up to its first await: fs.existsSync, fs.statSync.
\* The fs.watch callback and sync() start it; nothing waits for the
\* invocations already in flight.
SyncFileStart ==
    /\ syncs.started < MaxSyncs
    /\ syncs' = [syncs EXCEPT
                   !.started = @ + 1,
                   !.tasks = @ (+) SetToBag({
                        IF disk.exists
                        THEN SyncTask("getFileRecord", disk.mtime, << >>, 0, {})
                        ELSE SyncTask("deleteFileByPath", 0, << >>, 0, {})})]
    /\ UNCHANGED <<disk, store, memoryCall, chunkCall>>
    /\ UNCHANGED <<registryVars, runVars>>

\* await this.vectorStore.deleteFileByPath(filePath): the row of the path
\* goes, and its chunks with it (ON DELETE CASCADE)
SyncDeleteFile(t) ==
    /\ t \in TasksAt("deleteFileByPath")
    /\ store' = [store EXCEPT
                   !.files = {},
                   !.chunks = [r \in {x \in DOMAIN @ : x.file_id = 0} |-> @[r]]]
    /\ Returns(t)
    /\ UNCHANGED <<disk, memoryCall, chunkCall>>
    /\ UNCHANGED <<registryVars, runVars>>

\* await this.vectorStore.getFileRecord(filePath): an unchanged file is skipped
SyncGetFileRecord(t) ==
    /\ t \in TasksAt("getFileRecord")
    /\ IF \E f \in store.files : f.last_modified = t.mtime
       THEN Returns(t)
       ELSE Moves(t, [t EXCEPT !.pc = "load"])
    /\ UNCHANGED <<disk, store, memoryCall, chunkCall>>
    /\ UNCHANGED <<registryVars, runVars>>

\* await adapter.load(filePath), this.chunkText, await this.embedder.embed:
\* the content is the one on disk now; a blank text is skipped; reading a
\* file that is gone rejects
SyncLoad(t) ==
    /\ t \in TasksAt("load")
    /\ IF ~disk.exists THEN Rejects(t, "LoadFailed")
       ELSE IF IsBlank(disk.text) THEN Returns(t)
       ELSE Moves(t, [t EXCEPT !.pc = "select", !.chunks = SplitterChunks(disk.text)])
    /\ UNCHANGED <<disk, store, memoryCall, chunkCall>>
    /\ UNCHANGED <<registryVars, runVars>>

\* upsertFile: SELECT id FROM files WHERE path = $1
SyncSelectFile(t) ==
    /\ t \in TasksAt("select")
    /\ Moves(t, [t EXCEPT !.pc = "write",
                          !.fileId = IF store.files = {} THEN 0
                                     ELSE (CHOOSE f \in store.files : TRUE).id])
    /\ UNCHANGED <<disk, store, memoryCall, chunkCall>>
    /\ UNCHANGED <<registryVars, runVars>>

\* upsertFile: the UPDATE of the row that was selected, or the INSERT of a
\* new row, which the UNIQUE constraint on path rejects when there is one now
SyncWriteFile(t) ==
    /\ t \in TasksAt("write")
    /\ IF t.fileId # 0
       THEN /\ store' = [store EXCEPT
                           !.files = {IF f.id = t.fileId
                                      THEN [f EXCEPT !.last_modified = t.mtime]
                                      ELSE f : f \in @}]
            /\ Moves(t, [t EXCEPT !.pc = "clear"])
       ELSE IF store.files # {}
       THEN /\ Rejects(t, "UniqueViolation")
            /\ UNCHANGED store
       ELSE /\ store' = [store EXCEPT
                           !.files = {[id |-> store.nextFileId,
                                       last_modified |-> t.mtime]},
                           !.nextFileId = @ + 1]
            /\ Moves(t, [t EXCEPT !.pc = "clear", !.fileId = store.nextFileId])
    /\ UNCHANGED <<disk, memoryCall, chunkCall>>
    /\ UNCHANGED <<registryVars, runVars>>

\* await this.vectorStore.clearChunksForFile(fileId); insertChunksForFile
\* then issues one INSERT per chunk
SyncClearChunks(t) ==
    /\ t \in TasksAt("clear")
    /\ store' = [store EXCEPT !.chunks = ClearChunksForFile(@, t.fileId)]
    /\ IF Len(t.chunks) = 0 THEN Returns(t)
       ELSE Moves(t, [t EXCEPT !.pc = "insert", !.pending = 1..Len(t.chunks)])
    /\ UNCHANGED <<disk, memoryCall, chunkCall>>
    /\ UNCHANGED <<registryVars, runVars>>

\* one of the INSERTs of insertChunksForFile runs; the foreign key rejects it
\* when the file row is gone; after the last one the invocation returns
SyncInsertChunk(t, j) ==
    /\ t \in TasksAt("insert")
    /\ j \in t.pending
    /\ IF ~\E f \in store.files : f.id = t.fileId
       THEN /\ Rejects(t, "ForeignKeyViolation")
            /\ UNCHANGED store
       ELSE /\ store' = [store EXCEPT
                           !.chunks = @ (+) SetToBag({ChunkRow(t.fileId, 0, j - 1,
                                                               t.chunks[j])})]
            /\ IF t.pending = {j} THEN Returns(t)
               ELSE Moves(t, [t EXCEPT !.pending = @ \ {j}])
    /\ UNCHANGED <<disk, memoryCall, chunkCall>>
    /\ UNCHANGED <<registryVars, runVars>>

InitSync == InitRegistry

NextSync ==
    \/ \E text \in FileTexts : FileChange(text)
    \/ FileRemove
    \/ SyncFileStart
    \/ \E t \in BagToSet(syncs.tasks) : SyncDeleteFile(t)
    \/ \E t \in BagToSet(syncs.tasks) : SyncGetFileRecord(t)
    \/ \E t \in BagToSet(syncs.tasks) : SyncLoad(t)
    \/ \E t \in BagToSet(syncs.tasks) : SyncSelectFile(t)
    \/ \E t \in BagToSet(syncs.tasks) : SyncWriteFile(t)
    \/ \E t \in BagToSet(syncs.tasks) : SyncClearChunks(t)
    \/ \E t \in BagToSet(syncs.tasks), j \in 1..MaxTextLen : SyncInsertChunk(t, j)

SpecSync == InitSync /\ [][NextSync]_vars

\* the rows of memory_chunks that belong to file row `fileId`
RowsOfFile(fileId) ==
    [r \in {x \in DOMAIN store.chunks : x.file_id = fileId} |-> store.chunks[r]]

\* every invocation that was started has returned, none rejected
AllSyncsReturned ==
    /\ syncs.started >= 1
    /\ syncs.tasks = EmptyBag
    /\ syncs.rejected = {}

\* C35: whatever the interleaving of the syncFile invocations on the path,
\* once all of them have returned the store has at most one file row for the
\* path, and the chunks of that row are those of one indexing of the file:
\* the indices 0..n-1 of one content, each once.
C35_OneIndexingPerFile ==
    AllSyncsReturned =>
       /\ Cardinality(store.files) <= 1
       /\ \A f \in store.files :
             \E text \in FileTexts :
                RowsOfFile(f.id) = RowsOf(f.id, 0, SplitterChunks(text))

\* invocations that do not overlap leave one indexing: when an invocation
\* starts only after the others returned, the property holds
SyncsOverlap == BagCardinality(syncs.tasks) >= 2

====
